---- MODULE Spec2Model ----
(***************************************************************************)
(* A model of go-clr's interop core: the typed COM wrappers of             *)
(* ICORRuntimeHost, AppDomain, Assembly and IUnknown, the SAFEARRAY        *)
(* marshaler, the assembly enumerator (AppDomain.Load_2 over               *)
(* ListAssemblies) and the bring-up sequence of the example hosts.         *)
(*                                                                         *)
(* Native code (the CLR, OleAut32, ntdll) is the environment: every native *)
(* call answers with a status (HRESULT), a dispatch error code (the Errno  *)
(* syscall.SyscallN hands back) and its out-parameters.                    *)
(*                                                                         *)
(* 32-bit values are written as the signed reading of their bit pattern:   *)
(* the uint32 0xFFFFFFFF is -1, the HRESULT 0x80004005 is -2147467259.     *)
(***************************************************************************)
EXTENDS Integers, Sequences, FiniteSets, TLC

VARIABLES
    domainAsm,  \* the SAFEARRAY of assemblies the AppDomain reports, in its order
    domainLb,   \* the lLbound of that SAFEARRAY
    l2,         \* the last AppDomain.Load_2 call: its inputs and what it returned
    heap,       \* the SAFEARRAYs OleAut32 has allocated for CreateSafeArray
    ca,         \* the last CreateSafeArray call and what was read back from its array
    sess,       \* the handles a hosting session holds: host, iu, domain, assembly, method
    wcall,      \* the last typed-wrapper call: receiver, native answer, result
    m,          \* the example host's main: where it is, what it has called
    rc,         \* reference counts of the host and domain objects, and the last call
    registry    \* the libraries loaded and exports looked up by the array operations

enumVars == <<domainAsm, domainLb, l2>>

arrVars == <<heap, ca>>

wrapVars == <<sess, wcall>>

mainVars == <<m>>

refVars == <<rc>>

regVars == <<registry>>

vars == <<domainAsm, domainLb, l2, heap, ca, sess, wcall, m, rc, registry>>

(***************************************************************************)
(* Values shared by all parts                                              *)
(***************************************************************************)
NIL == 0

S_OK == 0

\* the statuses native calls answer with: S_OK, S_FALSE (1, the end of an
\* enumeration), E_FAIL (0x80004005)
E_FAIL == 0 - 2147467259

Statuses == {S_OK, 1, E_FAIL}

\* what OleAut32 answers for an index outside the array's bounds (0x8002000B)
DISP_E_BADINDEX == 0 - 2147352565

\* syscall.Errno(0): the call left no dispatch error code
NoErrno == 0

\* the one dispatch error code AppDomain.Load_3 tolerates
ERROR_OLD_WIN_VERSION == 1150

\* ERROR_ACCESS_DENIED: a dispatch error code no wrapper singles out
ERROR_ACCESS_DENIED == 5

Errnos == {NoErrno, ERROR_ACCESS_DENIED, ERROR_OLD_WIN_VERSION}

\* the error value nil
NoErr == [tier |-> "nil", op |-> "", code |-> 0, text |-> <<>>]

\* an error that is the bare syscall.Errno (returned as is, no message around it)
ErrnoErr(errno) == [tier |-> "errno", op |-> "", code |-> errno, text |-> <<>>]

\* fmt.Errorf("the <op> ... returned an error:\r\n%s", errno)
DispatchErr(op, errno) == [tier |-> "dispatch", op |-> op, code |-> errno, text |-> <<>>]

(***************************************************************************)
(* fmt's %x of a uintptr holding a 32-bit status                           *)
(***************************************************************************)
HexDigits == <<"0","1","2","3","4","5","6","7","8","9","a","b","c","d","e","f">>

RECURSIVE FmtHexNat(_)
FmtHexNat(n) ==
    IF n < 16 THEN <<HexDigits[n + 1]>>
    ELSE FmtHexNat(n \div 16) \o <<HexDigits[(n % 16) + 1]>>

RECURSIVE FmtHexPad(_, _)
FmtHexPad(n, k) ==
    IF k = 0 THEN <<>>
    ELSE FmtHexPad(n \div 16, k - 1) \o <<HexDigits[(n % 16) + 1]>>

\* v is the int32 reading; the digits are those of the unsigned value
FmtHex(v) ==
    IF v >= 0 THEN FmtHexNat(v)
    ELSE LET w == (v + 2147483647) + 1
         IN  <<HexDigits[8 + (w \div 268435456) + 1]>> \o FmtHexPad(w % 268435456, 7)

\* fmt.Errorf("the <op> ... returned a non-zero HRESULT: 0x%x", hr)
StatusErr(op, hr) ==
    [tier |-> "status", op |-> op, code |-> hr, text |-> <<"0", "x">> \o FmtHex(hr)]

(***************************************************************************)
(* strings: a string is the sequence of its characters                     *)
(***************************************************************************)
UpperChars == <<"A","B","C","D","E","F","G","H","I","J","K","L","M",
                "N","O","P","Q","R","S","T","U","V","W","X","Y","Z">>

LowerChars == <<"a","b","c","d","e","f","g","h","i","j","k","l","m",
                "n","o","p","q","r","s","t","u","v","w","x","y","z">>

ToLowerChar(c) ==
    IF \E i \in 1..26 : UpperChars[i] = c
    THEN LowerChars[CHOOSE i \in 1..26 : UpperChars[i] = c]
    ELSE c

\* strings.ToLower
ToLower(s) == [i \in 1..Len(s) |-> ToLowerChar(s[i])]

\* strings.HasPrefix
HasPrefix(s, prefix) ==
    Len(s) >= Len(prefix) /\ SubSeq(s, 1, Len(prefix)) = prefix

\* a BSTR: the byte-count prefix and the UTF-16 code units behind it
BSTR(s) == [byteLen |-> 2 * Len(s), units |-> s]

\* ReadUnicodeStr: the byte count is read from the prefix, that many bytes decoded
ReadUnicodeStr(b) == SubSeq(b.units, 1, b.byteLen \div 2)

(***************************************************************************)
(* uint32 arithmetic on bit patterns                                       *)
(***************************************************************************)
MaxInt32 == 2147483647

Wrap32(x) ==
    IF x > MaxInt32 THEN ((x - MaxInt32) - 1) - MaxInt32 - 1
    ELSE IF x < (0 - MaxInt32) - 1 THEN ((x + MaxInt32) + 1) + MaxInt32 + 1
    ELSE x

U32Sub(a, b) == Wrap32(a - b)

U32Inc(a) == IF a = MaxInt32 THEN (0 - MaxInt32) - 1 ELSE a + 1

\* a < b between two uint32
U32Lt(a, b) == IF (a >= 0) = (b >= 0) THEN a < b ELSE a >= 0

\* a <= b between two uint32
U32Le(a, b) == IF (a >= 0) = (b >= 0) THEN a <= b ELSE a >= 0

(***************************************************************************)
(* The typed wrappers.  Each takes what its native call answered,          *)
(* r = [hr, errno, outp] (status, dispatch error code, the value written   *)
(* to the out-parameter), and gives [out, ret, err]: out is "ok", "err" or *)
(* "panic"; ret is what the caller gets back; err is the error value.      *)
(***************************************************************************)
Result(ret, err) == [out |-> IF err = NoErr THEN "ok" ELSE "err", ret |-> ret, err |-> err]

\* a nil pointer dereference: the call never returns
Panic == [out |-> "panic", ret |-> NIL, err |-> NoErr]

\* Start that takes every non-negative status for success
StartAcceptsPositive(r) ==
    IF r.hr < 0 THEN Result(NIL, StatusErr("ICORRuntimeHost::Start", r.hr))
    ELSE Result(NIL, NoErr)

\* Start that refuses a host that is already started
StartOnce(r) ==
    IF sess.started \/ r.hr # S_OK
    THEN Result(NIL, StatusErr("ICORRuntimeHost::Start", IF r.hr # S_OK THEN r.hr ELSE E_FAIL))
    ELSE Result(NIL, NoErr)

\* Stop that refuses a host whose session holds a domain
StopBeforeDomainOnly(r) ==
    IF r.errno # NoErrno
    THEN Result(NIL, DispatchErr("ICORRuntimeHost::UnloadDomain", r.errno))
    ELSE IF r.hr # S_OK \/ sess.domain # NIL
    THEN Result(NIL, StatusErr("ICORRuntimeHost::UnloadDomain", IF r.hr # S_OK THEN r.hr ELSE E_FAIL))
    ELSE Result(NIL, NoErr)

\* ICORRuntimeHost.Start
Start(r) ==
    IF r.hr # S_OK THEN Result(NIL, StatusErr("ICORRuntimeHost::Start", r.hr))
    ELSE Result(NIL, NoErr)

\* ICORRuntimeHost.Stop
Stop(r) ==
    IF r.errno # NoErrno
    THEN Result(NIL, DispatchErr("ICORRuntimeHost::UnloadDomain", r.errno))
    ELSE IF r.hr # S_OK
    THEN Result(NIL, StatusErr("ICORRuntimeHost::UnloadDomain", r.hr))
    ELSE Result(NIL, NoErr)

\* GetICORRuntimeHost: gi is what runtimeInfo.GetInterface returned (the host and
\* an error), r the answer of the host's Start; the host is returned with
\* Start's error
GetICORRuntimeHost(gi, r) ==
    IF gi.err # NoErr THEN Result(NIL, gi.err)
    ELSE [Start(r) EXCEPT !.ret = gi.ret]

\* ICORRuntimeHost.GetDefaultDomain
GetDefaultDomain(r) ==
    IF r.hr # S_OK
    THEN Result(r.outp, StatusErr("ICORRuntimeHost::GetDefaultDomain", r.hr))
    ELSE Result(r.outp, NoErr)

\* IUnknown.QueryInterface and ICORRuntimeHost.QueryInterface
QueryInterface(r) ==
    IF r.errno # NoErrno
    THEN Result(r.outp, DispatchErr("IUknown::QueryInterface", r.errno))
    ELSE IF r.hr # S_OK
    THEN Result(r.outp, StatusErr("IUknown::QueryInterface", r.hr))
    ELSE Result(r.outp, NoErr)

\* ICORRuntimeHost.CreateDomain; q: the answer to iu.QueryInterface(IID_AppDomain)
CreateDomain(r, q) ==
    IF r.hr # S_OK
    THEN Result(NIL, StatusErr("ICORRuntimeHost::CreateDomain", r.hr))
    ELSE IF r.outp = NIL THEN Panic
    ELSE QueryInterface(q)

\* ICORRuntimeHost.EnumDomains
EnumDomains(r) ==
    IF r.errno # NoErrno
    THEN Result(r.outp, DispatchErr("ICORRuntimeHost::EnumDomains", r.errno))
    ELSE IF r.hr # S_OK
    THEN Result(r.outp, StatusErr("ICORRuntimeHost::EnumDomains", r.hr))
    ELSE Result(r.outp, NoErr)

\* ICORRuntimeHost.NextDomain; q: the answer to iu.QueryInterface(IID_AppDomain)
NextDomain(r, q) ==
    IF r.errno # NoErrno
    THEN Result(NIL, DispatchErr("ICORRuntimeHost::NextDomain", r.errno))
    ELSE IF r.hr # S_OK
    THEN Result(NIL, StatusErr("ICORRuntimeHost::NextDomain", r.hr))
    ELSE IF r.outp = NIL THEN Panic
    ELSE QueryInterface(q)

\* ICORRuntimeHost.CloseEnum
CloseEnum(r) ==
    IF r.errno # NoErrno
    THEN Result(NIL, DispatchErr("ICORRuntimeHost::CloseEnum", r.errno))
    ELSE IF r.hr # S_OK
    THEN Result(NIL, StatusErr("ICORRuntimeHost::CloseEnum", r.hr))
    ELSE Result(NIL, NoErr)

\* ICORRuntimeHost.UnloadDomain
UnloadDomain(r) ==
    IF r.errno # NoErrno
    THEN Result(NIL, DispatchErr("ICORRuntimeHost::UnloadDomain", r.errno))
    ELSE IF r.hr # S_OK
    THEN Result(NIL, StatusErr("ICORRuntimeHost::UnloadDomain", r.hr))
    ELSE Result(NIL, NoErr)

\* AppDomain.GetFriendlyName; outp is the BSTR
GetFriendlyName(r) ==
    IF r.errno # NoErrno
    THEN Result(<<>>, DispatchErr("appdomain.GetFriendlyName", r.errno))
    ELSE IF r.hr # S_OK
    THEN Result(<<>>, StatusErr("appdomain.GetFriendlyName", r.hr))
    ELSE Result(ReadUnicodeStr(r.outp), NoErr)

\* AppDomain.ToString; outp is the BSTR
DomainToString(r) ==
    IF r.errno # NoErrno
    THEN Result(<<>>, DispatchErr("AppDomain.ToString", r.errno))
    ELSE IF r.hr # S_OK
    THEN Result(<<>>, StatusErr("AppDomain.ToString", r.hr))
    ELSE Result(ReadUnicodeStr(r.outp), NoErr)

\* AppDomain.Load_3
Load_3(r) ==
    IF r.errno # NoErrno /\ r.errno # ERROR_OLD_WIN_VERSION
    THEN Result(r.outp, ErrnoErr(r.errno))
    ELSE IF r.hr # S_OK
    THEN Result(r.outp, StatusErr("appdomain.Load_3", r.hr))
    ELSE Result(r.outp, NoErr)

\* AppDomain.GetAssemblies; outp is the SAFEARRAY
GetAssemblies(r) ==
    IF r.errno # NoErrno
    THEN Result(r.outp, DispatchErr("AppDomain.GetAssemblies", r.errno))
    ELSE IF r.hr # S_OK
    THEN Result(r.outp, StatusErr("AppDomain.GetAssemblies", r.hr))
    ELSE Result(r.outp, NoErr)

\* Assembly.GetEntryPoint
GetEntryPoint(r) ==
    IF r.errno # NoErrno
    THEN Result(r.outp, DispatchErr("Assembly::GetEntryPoint", r.errno))
    ELSE IF r.hr # S_OK
    THEN Result(r.outp, StatusErr("Assembly::GetEntryPoint", r.hr))
    ELSE Result(r.outp, NoErr)

\* Assembly.GetFullName; outp is the BSTR
GetFullName(r) ==
    IF r.errno # NoErrno
    THEN Result(<<>>, DispatchErr("Assembly::GetFullName", r.errno))
    ELSE IF r.hr # S_OK
    THEN Result(<<>>, StatusErr("Assembly::GetFullName", r.hr))
    ELSE Result(ReadUnicodeStr(r.outp), NoErr)

(***************************************************************************)
(* The assembly enumerator: AppDomain.GetAssemblies, ListAssemblies and    *)
(* Load_2, over the SAFEARRAY readers of safearray.go.                     *)
(*                                                                         *)
(* An assembly object is [h, name, hr]: its address, its full name and the *)
(* status its get_FullName answers with.  A fault says which native call   *)
(* of one Load_2 run goes wrong and how: kind "hr" (a failure status),     *)
(* "errno" (a dispatch error code), "dims" (the array reports two          *)
(* dimensions) or "oom" (the allocation of the result slice fails).        *)
(***************************************************************************)
MaxAsm == 3

N_TestDLL == <<"T","e","s","t","D","L","L",","," ","V","e","r","s","i","o","n","=","1">>

N_mscorlib == <<"m","s","c","o","r","l","i","b">>

N_TEST == <<"T","E","S","T">>

AsmNames == {N_TestDLL, N_mscorlib, N_TEST}

SearchStrings ==
    { <<"t","e","s","t","d","l","l">>, <<"T","e","s","t">>, <<"M","S">>, <<"d","l","l">>, <<>> }

LBounds == {0, 1}

NoFault == [call |-> "none", kind |-> "none", at |-> 0]

Faults ==
    {NoFault}
    \cup [call : {"GetAssemblies", "SafeArrayGetLBound", "SafeArrayGetUBound"},
          kind : {"hr", "errno"}, at : {0}]
    \cup [call : {"SafeArrayGetDim"}, kind : {"errno", "dims"}, at : {0}]
    \cup [call : {"SafeArrayGetElement", "get_FullName"}, kind : {"hr", "errno"}, at : {0, 1}]
    \cup [call : {"make"}, kind : {"oom"}, at : {0}]

\* what a native call answers under fault f; at: the element offset it is about
NatStatus(f, call, at) ==
    IF f.call = call /\ f.kind = "hr" /\ f.at = at THEN E_FAIL ELSE S_OK

NatErrno(f, call, at) ==
    IF f.call = call /\ f.kind = "errno" /\ f.at = at THEN ERROR_ACCESS_DENIED ELSE NoErrno

\* the bytes of a pointer in memory (little-endian, 8 bytes; addresses stay small)
PtrBytes(h) == <<h % 256, (h \div 256) % 256, 0, 0, 0, 0, 0, 0>>

\* the value of a little-endian run of bytes
RECURSIVE LEValue(_)
LEValue(bytes) ==
    IF bytes = <<>> THEN 0 ELSE bytes[1] + 256 * LEValue(Tail(bytes))

RECURSIVE Flatten(_)
Flatten(ss) == IF ss = <<>> THEN <<>> ELSE ss[1] \o Flatten(Tail(ss))

\* the SAFEARRAY descriptor of the domain's assemblies: pvData holds the
\* objects' addresses, 8 bytes each
DomainArray(arr, lb) ==
    [addr |-> 1, cDims |-> 1, fFeatures |-> 0, cbElements |-> 8, cLocks |-> 0,
     pvData |-> Flatten([k \in 1..Len(arr) |-> PtrBytes(arr[k].h)]),
     cElements |-> Len(arr), lLbound |-> lb]

\* what the runtime answers to GetAssemblies under fault f: the descriptor of the
\* domain's array, or nothing with its failure
NatGetAssemblies(arr, lb, f) ==
    LET hr    == NatStatus(f, "GetAssemblies", 0)
        errno == NatErrno(f, "GetAssemblies", 0)
    IN  [hr |-> hr, errno |-> errno,
         outp |-> IF hr = S_OK /\ errno = NoErrno THEN DomainArray(arr, lb) ELSE NIL]

\* SafeArrayGetDim
SafeArrayGetDim(psa, f) ==
    LET errno == NatErrno(f, "SafeArrayGetDim", 0)
        udimensions == IF f.call = "SafeArrayGetDim" /\ f.kind = "dims" THEN 2 ELSE psa.cDims
    IN  IF errno # NoErrno
        THEN [val |-> 0, err |-> DispatchErr("oleaut32!SafeArrayGetDim", errno)]
        ELSE [val |-> udimensions, err |-> NoErr]

\* SafeArrayGetLBound: the LONG lower bound lands in a uint32
SafeArrayGetLBound(psa, nDim, f) ==
    LET hr    == IF nDim \in 1..psa.cDims THEN NatStatus(f, "SafeArrayGetLBound", 0)
                 ELSE DISP_E_BADINDEX
        errno == NatErrno(f, "SafeArrayGetLBound", 0)
    IN  IF errno # NoErrno
        THEN [val |-> 0, err |-> ErrnoErr(errno)]
        ELSE IF hr # S_OK
        THEN [val |-> 0, err |-> StatusErr("oleaut32!SafeArrayGetLBound", hr)]
        ELSE [val |-> psa.lLbound, err |-> NoErr]

\* SafeArrayGetUBound: the LONG upper bound (lLbound + cElements - 1) lands in a uint32
SafeArrayGetUBound(psa, nDim, f) ==
    LET hr    == IF nDim \in 1..psa.cDims THEN NatStatus(f, "SafeArrayGetUBound", 0)
                 ELSE DISP_E_BADINDEX
        errno == NatErrno(f, "SafeArrayGetUBound", 0)
    IN  IF errno # NoErrno
        THEN [val |-> 0, err |-> ErrnoErr(errno)]
        ELSE IF hr # S_OK
        THEN [val |-> 0, err |-> StatusErr("oleaut32!SafeArrayGetUBound", hr)]
        ELSE [val |-> Wrap32((psa.lLbound + psa.cElements) - 1), err |-> NoErr]

\* SafeArrayGetElement: OleAut32 reads the index as a LONG, refuses one outside
\* the bounds, and copies the element's cbElements bytes into ret (a zeroed
\* pointer-sized variable), whose value is what the caller gets
SafeArrayGetElement(psa, indicies, f) ==
    LET off     == indicies - psa.lLbound
        inRange == off >= 0 /\ off < psa.cElements
        hr      == IF inRange THEN NatStatus(f, "SafeArrayGetElement", off)
                   ELSE DISP_E_BADINDEX
        errno   == NatErrno(f, "SafeArrayGetElement", off)
    IN  IF errno # NoErrno
        THEN [val |-> NIL, err |-> DispatchErr("oleaut32!SafeArrayGetElement", errno)]
        ELSE IF hr # S_OK
        THEN [val |-> NIL, err |-> StatusErr("oleaut32!SafeArrayGetElement", hr)]
        ELSE [val |-> LEValue(SubSeq(psa.pvData, off * psa.cbElements + 1,
                                     (off + 1) * psa.cbElements)),
              err |-> NoErr]

\* the for loop of ListAssemblies: for i := lbound; i <= ubound; i++.  fetched
\* lists the indices SafeArrayGetElement was called with, in the order of the calls
RECURSIVE ListLoop(_, _, _, _, _)
ListLoop(psa, i, ubound, assemblies, f) ==
    IF ~U32Le(i, ubound)
    THEN [out |-> "ok", list |-> assemblies, err |-> NoErr, fetched |-> <<>>]
    ELSE LET g == SafeArrayGetElement(psa, i, f)
         IN  IF g.err # NoErr
             THEN [out |-> "err", list |-> <<>>, err |-> g.err, fetched |-> <<i>>]
             ELSE [ListLoop(psa, U32Inc(i), ubound, Append(assemblies, g.val), f)
                       EXCEPT !.fetched = <<i>> \o @]

\* AppDomain.ListAssemblies.  out is "ok", "err", or "fatal" when the process dies
\* in make: a capacity of 2^31 elements or more may not be allocatable
ListAssemblies(arr, lb, f) ==
    LET ga == GetAssemblies(NatGetAssemblies(arr, lb, f))
        d  == SafeArrayGetDim(ga.ret, f)
        lo == SafeArrayGetLBound(ga.ret, d.val, f)
        up == SafeArrayGetUBound(ga.ret, d.val, f)
        arrlen == U32Sub(up.val, lo.val)
    IN  IF ga.err # NoErr THEN [out |-> "err", list |-> <<>>, fetched |-> <<>>, err |-> ga.err]
        ELSE IF d.err # NoErr THEN [out |-> "err", list |-> <<>>, fetched |-> <<>>, err |-> d.err]
        ELSE IF d.val # 1
        THEN [out |-> "err", list |-> <<>>, fetched |-> <<>>,
              err |-> [tier |-> "dimension", op |-> "ListAssemblies", code |-> d.val,
                       text |-> <<>>]]
        ELSE IF lo.err # NoErr THEN [out |-> "err", list |-> <<>>, fetched |-> <<>>, err |-> lo.err]
        ELSE IF up.err # NoErr THEN [out |-> "err", list |-> <<>>, fetched |-> <<>>, err |-> up.err]
        ELSE IF arrlen < 0 /\ f.kind = "oom"
        THEN [out |-> "fatal", list |-> <<>>, fetched |-> <<>>, err |-> NoErr]
        ELSE ListLoop(ga.ret, lo.val, up.val, <<>>, f)

\* the assembly object behind a handle
ObjectAt(arr, h) == CHOOSE e \in {arr[k] : k \in 1..Len(arr)} : e.h = h

\* what the i-th assembly of a list answers to get_FullName under fault f
NatGetFullName(arr, h, i, f) ==
    LET obj == ObjectAt(arr, h)
        hr  == IF NatStatus(f, "get_FullName", i - 1) # S_OK THEN E_FAIL ELSE obj.hr
    IN  [hr |-> hr, errno |-> NatErrno(f, "get_FullName", i - 1),
         outp |-> IF hr = S_OK THEN BSTR(obj.name) ELSE BSTR(<<>>)]

\* PrefixMatch without the case folding
PrefixMatchCaseSensitive(name, assemblyString) ==
    HasPrefix(name, assemblyString)

\* the test of Load_2 on one name
PrefixMatch(name, assemblyString) ==
    HasPrefix(ToLower(name), ToLower(assemblyString))

\* Load2Loop that keeps scanning after a match and returns the last one
RECURSIVE Load2LoopLast(_, _, _, _, _)
Load2LoopLast(arr, asmb, i, assemblyString, f) ==
    IF i > Len(asmb)
    THEN [ret |-> NIL,
          err |-> [tier |-> "notfound", op |-> "Load_2", code |-> 0,
                   text |-> assemblyString]]
    ELSE LET n    == GetFullName(NatGetFullName(arr, asmb[i], i, f))
             rest == Load2LoopLast(arr, asmb, i + 1, assemblyString, f)
         IN  IF rest.err = NoErr THEN rest
             ELSE IF n.err = NoErr /\ HasPrefix(ToLower(n.ret), ToLower(assemblyString))
             THEN [ret |-> asmb[i], err |-> NoErr]
             ELSE rest

\* Load2Loop that reports not-found only for an empty list and otherwise falls
\* back to the first entry
RECURSIVE Load2LoopFallback(_, _, _, _, _)
Load2LoopFallback(arr, asmb, i, assemblyString, f) ==
    IF i > Len(asmb)
    THEN IF Len(asmb) = 0
         THEN [ret |-> NIL,
               err |-> [tier |-> "notfound", op |-> "Load_2", code |-> 0,
                        text |-> assemblyString]]
         ELSE [ret |-> asmb[1], err |-> NoErr]
    ELSE LET n == GetFullName(NatGetFullName(arr, asmb[i], i, f))
         IN  IF n.err = NoErr /\ HasPrefix(ToLower(n.ret), ToLower(assemblyString))
             THEN [ret |-> asmb[i], err |-> NoErr]
             ELSE Load2LoopFallback(arr, asmb, i + 1, assemblyString, f)

\* Load2Loop that gives up at the first entry whose name cannot be read and
\* returns that failure
RECURSIVE Load2LoopStopAtUnreadable(_, _, _, _, _)
Load2LoopStopAtUnreadable(arr, asmb, i, assemblyString, f) ==
    IF i > Len(asmb)
    THEN [ret |-> NIL,
          err |-> [tier |-> "notfound", op |-> "Load_2", code |-> 0,
                   text |-> assemblyString]]
    ELSE LET n == GetFullName(NatGetFullName(arr, asmb[i], i, f))
         IN  IF n.err # NoErr THEN [ret |-> NIL, err |-> n.err]
             ELSE IF HasPrefix(ToLower(n.ret), ToLower(assemblyString))
             THEN [ret |-> asmb[i], err |-> NoErr]
             ELSE Load2LoopStopAtUnreadable(arr, asmb, i + 1, assemblyString, f)

\* the for loop of Load_2: for i := range asmb
RECURSIVE Load2Loop(_, _, _, _, _)
Load2Loop(arr, asmb, i, assemblyString, f) ==
    IF i > Len(asmb)
    THEN [ret |-> NIL,
          err |-> [tier |-> "notfound", op |-> "Load_2", code |-> 0,
                   text |-> assemblyString]]
    ELSE LET n == GetFullName(NatGetFullName(arr, asmb[i], i, f))
         IN  IF n.err = NoErr /\ PrefixMatch(n.ret, assemblyString)
             THEN [ret |-> asmb[i], err |-> NoErr]
             ELSE Load2Loop(arr, asmb, i + 1, assemblyString, f)

\* AppDomain.Load_2 (the enumerating one).  asmb is the list ListAssemblies
\* returned, listed whether it returned one, fetched the indices it fetched
Load_2(arr, lb, assemblyString, f) ==
    LET la == ListAssemblies(arr, lb, f)
    IN  IF la.out = "fatal"
        THEN [out |-> "fatal", ret |-> NIL, err |-> NoErr, asmb |-> <<>>,
              listed |-> FALSE, fetched |-> la.fetched]
        ELSE IF la.err # NoErr
        THEN [out |-> "err", ret |-> NIL, err |-> la.err, asmb |-> <<>>,
              listed |-> FALSE, fetched |-> la.fetched]
        ELSE LET r == Load2Loop(arr, la.list, 1, assemblyString, f)
             IN  [out |-> IF r.err = NoErr THEN "ok" ELSE "err",
                  ret |-> r.ret, err |-> r.err, asmb |-> la.list,
                  listed |-> TRUE, fetched |-> la.fetched]

(***************************************************************************)
(* The array marshaler: SafeArrayCreate and CreateSafeArray.               *)
(*                                                                         *)
(* A SAFEARRAY is a descriptor [addr, cDims, fFeatures, cbElements,        *)
(* cLocks, pvData, cElements, lLbound] (one bound: rgsabound[0]); pvData   *)
(* is the element storage, byte by byte.                                   *)
(***************************************************************************)
MaxBytes == 3

MaxArrays == 2

Bytes == {0, 255}

RECURSIVE SeqsUpTo(_, _)
SeqsUpTo(S, n) ==
    IF n = 0 THEN {<<>>}
    ELSE LET shorter == SeqsUpTo(S, n - 1)
         IN  shorter \cup {Append(q, x) : q \in {t \in shorter : Len(t) = n - 1}, x \in S}

ByteSeqs == SeqsUpTo(Bytes, MaxBytes)

\* VARENUM: VT_UI1 (unsigned byte), VT_UI2 (unsigned short)
VT_UI1 == 17

VT_UI2 == 18

\* the element size OleAut32 gives a variant type
ElemSize(vt) == IF vt = VT_UI1 THEN 1 ELSE IF vt = VT_UI2 THEN 2 ELSE 8

ArrFaults ==
    {NoFault}
    \cup [call : {"SafeArrayCreate"}, kind : {"errno", "null"}, at : {0}]
    \cup [call : {"RtlCopyMemory"}, kind : {"errno"}, at : {0}]
    \cup [call : {"SafeArrayCreate", "RtlCopyMemory"}, kind : {"missing"}, at : {0}]

\* syscall.MustLoadDLL and MustFindProc for the function call: they return when
\* the library and its export are found, and panic when either is missing
MustResolve(f, call) == ~(f.call = call /\ f.kind = "missing")

\* OleAut32!SafeArrayCreate: a descriptor with zeroed storage at address addr, or
\* NULL
NatSafeArrayCreate(vt, cDims, rgsabound, f, addr) ==
    IF f.call = "SafeArrayCreate" /\ f.kind = "null"
    THEN [ret |-> NIL, errno |-> NoErrno, made |-> {}]
    ELSE [ret |-> addr,
          errno |-> NatErrno(f, "SafeArrayCreate", 0),
          made |-> {[addr |-> addr, cDims |-> cDims, fFeatures |-> 0,
                     cbElements |-> ElemSize(vt), cLocks |-> 0,
                     pvData |-> [k \in 1..(rgsabound.cElements * ElemSize(vt)) |-> 0],
                     cElements |-> rgsabound.cElements,
                     lLbound |-> rgsabound.lLbound]}]

\* SafeArrayCreate.  made: the descriptor OleAut32 allocated, if any, whether or
\* not it is returned to the caller
SafeArrayCreate(vt, cDims, rgsabound, f, addr) ==
    LET n == NatSafeArrayCreate(vt, cDims, rgsabound, f, addr)
    IN  IF ~MustResolve(f, "SafeArrayCreate")
        THEN [val |-> NIL, err |-> NoErr, made |-> {}, panic |-> TRUE]
        ELSE IF n.errno # NoErrno
        THEN [val |-> NIL, err |-> ErrnoErr(n.errno), made |-> n.made, panic |-> FALSE]
        ELSE IF n.ret = 0
        THEN [val |-> NIL,
              err |-> [tier |-> "notcreated", op |-> "OleAut32!SafeArrayCreate",
                       code |-> n.ret, text |-> <<"0", "x">> \o FmtHex(n.ret)],
              made |-> n.made, panic |-> FALSE]
        ELSE [val |-> n.ret, err |-> NoErr, made |-> n.made, panic |-> FALSE]

\* RtlCopyMemory that stops one byte short
RtlCopyMemoryShort(destination, source, length) ==
    [k \in 1..Len(destination) |-> IF k < length THEN source[k] ELSE destination[k]]

\* ntdll!RtlCopyMemory(Destination, Source, Length) on the storage Destination
\* points into
RtlCopyMemory(destination, source, length) ==
    [k \in 1..Len(destination) |-> IF k <= length THEN source[k] ELSE destination[k]]

\* the bound CreateSafeArray asks for, one element more than the bytes given
SafeArrayBoundOfOneMore(rawBytes) == [cElements |-> Len(rawBytes) + 1, lLbound |-> 0]

\* safeArrayBounds of CreateSafeArray
SafeArrayBoundOf(rawBytes) == [cElements |-> Len(rawBytes), lLbound |-> 0]

\* CreateSafeArray.  out is "ok", "err", or "panic" (a library or export that is
\* missing, or &rawBytes[0] of an empty slice); arr is the array SafeArrayCreate
\* returned, copies the calls of RtlCopyMemory made: the offset into the
\* array's storage, the offset into rawBytes, and the length
CreateSafeArray(rawBytes, f, addr) ==
    LET c == SafeArrayCreate(VT_UI1, 1, SafeArrayBoundOf(rawBytes), f, addr)
    IN  IF c.panic
        THEN [out |-> "panic", ret |-> NIL, err |-> NoErr, made |-> c.made,
              arr |-> NIL, copies |-> <<>>]
        ELSE IF c.err # NoErr
        THEN [out |-> "err", ret |-> NIL, err |-> c.err, made |-> c.made,
              arr |-> NIL, copies |-> <<>>]
        ELSE IF ~MustResolve(f, "RtlCopyMemory")
        THEN [out |-> "panic", ret |-> NIL, err |-> NoErr, made |-> c.made,
              arr |-> c.val, copies |-> <<>>]
        ELSE IF Len(rawBytes) = 0
        THEN [out |-> "panic", ret |-> NIL, err |-> NoErr, made |-> c.made,
              arr |-> c.val, copies |-> <<>>]
        ELSE LET errno     == NatErrno(f, "RtlCopyMemory", 0)
                 safeArray == CHOOSE d \in c.made : d.addr = c.val
                 copied    == {[safeArray EXCEPT
                                  !.pvData = RtlCopyMemory(safeArray.pvData, rawBytes,
                                                           Len(rawBytes))]}
                 copies    == <<[dst |-> 0, src |-> 0, len |-> Len(rawBytes)]>>
             IN  IF errno # NoErrno
                 THEN [out |-> "err", ret |-> NIL, err |-> ErrnoErr(errno), made |-> copied,
                       arr |-> c.val, copies |-> copies]
                 ELSE [out |-> "ok", ret |-> c.val, err |-> NoErr, made |-> copied,
                       arr |-> c.val, copies |-> copies]

\* the descriptor at an address
Deref(addr) == CHOOSE d \in heap : d.addr = addr

\* reading an array the way its consumers do: SafeArrayGetElement at every index
\* from the lower to the upper bound
RECURSIVE ReadLoop(_, _, _, _)
ReadLoop(psa, i, ubound, acc) ==
    IF ~U32Le(i, ubound) THEN acc
    ELSE LET g == SafeArrayGetElement(psa, i, NoFault)
         IN  IF g.err # NoErr THEN acc
             ELSE ReadLoop(psa, U32Inc(i), ubound, Append(acc, g.val))

\* no call of SafeArrayLock in progress
NoLock ==
    [called |-> FALSE, psa |-> NIL, locksBefore |-> 0, addrsBefore |-> {},
     out |-> "none", err |-> NoErr]

NoCreate ==
    [called |-> FALSE, raw |-> <<>>, fault |-> NoFault, out |-> "none", ret |-> NIL,
     err |-> NoErr, readDone |-> FALSE, dims |-> 0, lbound |-> 0, ubound |-> 0,
     read |-> <<>>, arr |-> NIL, copies |-> <<>>, lock |-> NoLock]

\* one call of CreateSafeArray, up to its return or its panic
CreateSafeArrayCall(rawBytes, f) ==
    /\ ~ca.called /\ ~ca.lock.called
    /\ Cardinality(heap) < MaxArrays
    /\ LET addr == CHOOSE a \in 1..(Cardinality(heap) + 1) : \A d \in heap : d.addr # a
           r    == CreateSafeArray(rawBytes, f, addr)
       IN  /\ heap' = heap \cup r.made
           /\ ca' = [NoCreate EXCEPT !.called = TRUE, !.raw = rawBytes, !.fault = f,
                                     !.out = r.out, !.ret = r.ret, !.err = r.err,
                                     !.arr = r.arr, !.copies = r.copies]
    /\ UNCHANGED enumVars
    /\ UNCHANGED wrapVars
    /\ UNCHANGED mainVars
    /\ UNCHANGED refVars
    /\ UNCHANGED regVars

\* the caller reads the array it was given: dimensions, bounds, every element
ReadElements ==
    /\ ca.called /\ ca.out = "ok" /\ ~ca.readDone
    /\ LET psa == Deref(ca.ret)
           d   == SafeArrayGetDim(psa, NoFault)
           lo  == SafeArrayGetLBound(psa, 1, NoFault)
           up  == SafeArrayGetUBound(psa, 1, NoFault)
       IN  ca' = [ca EXCEPT !.readDone = TRUE, !.dims = d.val, !.lbound = lo.val,
                            !.ubound = up.val,
                            !.read = ReadLoop(psa, lo.val, up.val, <<>>)]
    /\ UNCHANGED <<heap>>
    /\ UNCHANGED enumVars
    /\ UNCHANGED wrapVars
    /\ UNCHANGED mainVars
    /\ UNCHANGED refVars
    /\ UNCHANGED regVars

\* the caller is done with the result of the call
CreateSafeArrayReturn ==
    /\ ca.called /\ ca.out # "panic"
    /\ ca' = NoCreate
    /\ UNCHANGED <<heap>>
    /\ UNCHANGED enumVars
    /\ UNCHANGED wrapVars
    /\ UNCHANGED mainVars
    /\ UNCHANGED refVars
    /\ UNCHANGED regVars

\* SafeArrayDestroy of an unlocked array, answered with S_OK
SafeArrayDestroyCall(psa) ==
    /\ ~ca.called /\ ~ca.lock.called
    /\ psa \in heap /\ psa.cLocks = 0
    /\ heap' = heap \ {psa}
    /\ UNCHANGED <<ca>>
    /\ UNCHANGED enumVars
    /\ UNCHANGED wrapVars
    /\ UNCHANGED mainVars
    /\ UNCHANGED refVars
    /\ UNCHANGED regVars

(***************************************************************************)
(* SafeArrayLock.  The procedure it resolves and calls is                  *)
(* OleAut32!SafeArrayCreate, with psa as the only argument.                *)
(* SafeArrayCreate(vt, cDims, rgsabound) then reads its vt from psa's      *)
(* address and its cDims and rgsabound from whatever the argument          *)
(* registers hold, so what it does is not determined: it refuses and       *)
(* returns NULL, it allocates a descriptor and returns its address, or it  *)
(* faults reading rgsabound.  In no case does it touch the array psa.      *)
(***************************************************************************)
\* what the call SafeArrayLock makes can answer; addr: a free address
LockAnswers(addr) ==
    {[ret |-> NIL, errno |-> e, made |-> {}, fault |-> FALSE] :
        e \in {NoErrno, ERROR_ACCESS_DENIED}}
    \cup {[ret |-> addr, errno |-> NoErrno, fault |-> FALSE,
           made |-> NatSafeArrayCreate(VT_UI1, 1, [cElements |-> 0, lLbound |-> 0],
                                       NoFault, addr).made]}
    \cup {[ret |-> NIL, errno |-> NoErrno, made |-> {}, fault |-> TRUE]}

\* SafeArrayLock; n: what the native call answers.  psa: the array after the call
SafeArrayLock(psa, n, f) ==
    IF ~MustResolve(f, "SafeArrayCreate") \/ n.fault
    THEN [out |-> "panic", err |-> NoErr, made |-> {}, psa |-> psa]
    ELSE IF n.errno # NoErrno
    THEN [out |-> "err", err |-> ErrnoErr(n.errno), made |-> n.made, psa |-> psa]
    ELSE IF n.ret # S_OK
    THEN [out |-> "err", err |-> StatusErr("OleAut32!SafeArrayCreate", n.ret),
          made |-> n.made, psa |-> psa]
    ELSE [out |-> "ok", err |-> NoErr, made |-> n.made, psa |-> psa]

\* one call of SafeArrayLock on an array of the heap, up to its return or fault
SafeArrayLockCall(psa, f) ==
    /\ ~ca.called /\ ~ca.lock.called
    /\ psa \in heap
    /\ LET addr == CHOOSE a \in 1..(Cardinality(heap) + 1) : \A d \in heap : d.addr # a
       IN  \E n \in LockAnswers(addr) :
             /\ Cardinality(heap \cup n.made) <= MaxArrays
             /\ LET r == SafeArrayLock(psa, n, f)
                IN  /\ heap' = ((heap \ {psa}) \cup {r.psa}) \cup r.made
                    /\ ca' = [ca EXCEPT !.lock =
                                 [called |-> TRUE, psa |-> psa.addr,
                                  locksBefore |-> psa.cLocks,
                                  addrsBefore |-> {d.addr : d \in heap},
                                  out |-> r.out, err |-> r.err]]
    /\ UNCHANGED enumVars
    /\ UNCHANGED wrapVars
    /\ UNCHANGED mainVars
    /\ UNCHANGED refVars
    /\ UNCHANGED regVars

\* the caller has taken the result of SafeArrayLock
SafeArrayLockReturn ==
    /\ ca.lock.called /\ ca.lock.out # "panic"
    /\ ca' = [ca EXCEPT !.lock = NoLock]
    /\ UNCHANGED <<heap>>
    /\ UNCHANGED enumVars
    /\ UNCHANGED wrapVars
    /\ UNCHANGED mainVars
    /\ UNCHANGED refVars
    /\ UNCHANGED regVars

(***************************************************************************)
(* Resolution of native procedures.  Every operation of safearray.go       *)
(* begins with syscall.MustLoadDLL(library) and MustFindProc(export): the  *)
(* library is loaded and the export looked up in each call, nothing is     *)
(* kept between calls.  registry.loaded counts the loads of each library,  *)
(* registry.found the lookups of each export, registry.calls the           *)
(* operations called.                                                      *)
(***************************************************************************)
MaxCalls == 3

ArrayOperations ==
    {"CreateSafeArray", "SafeArrayCreate", "SysAllocString", "SysStringLen",
     "SafeArrayPutElement", "SafeArrayLock", "SafeArrayGetVartype",
     "SafeArrayAccessData", "SafeArrayGetLBound", "SafeArrayGetUBound",
     "SafeArrayDestroy", "SafeArrayGetDim", "SafeArrayGetElement",
     "SafeArrayGetElemsize"}

Libraries == {"OleAut32.dll", "ntdll.dll"}

\* the exports the operations look up: their own, but SafeArrayCreate for
\* SafeArrayLock and RtlCopyMemory for CreateSafeArray
Exports == (ArrayOperations \ {"CreateSafeArray", "SafeArrayLock"}) \cup {"RtlCopyMemory"}

NoRegistry ==
    [loaded |-> [lib \in Libraries |-> 0], found |-> [e \in Exports |-> 0], calls |-> 0]

\* syscall.MustLoadDLL(lib).MustFindProc(export)
MustFindProc(reg, lib, export) ==
    [reg EXCEPT !.loaded[lib] = @ + 1, !.found[export] = @ + 1]

\* the resolutions one call of an operation makes; created: whether the
\* SafeArrayCreate inside CreateSafeArray returned an array
Resolve(reg, op, created) ==
    CASE op = "CreateSafeArray" ->
            LET c == MustFindProc(reg, "OleAut32.dll", "SafeArrayCreate")
            IN  IF created THEN MustFindProc(c, "ntdll.dll", "RtlCopyMemory") ELSE c
      [] op = "SafeArrayLock" -> MustFindProc(reg, "OleAut32.dll", "SafeArrayCreate")
      [] OTHER -> MustFindProc(reg, "OleAut32.dll", op)

\* one call of an array or string operation
ArrayOperationCall(op, created) ==
    /\ registry.calls < MaxCalls
    /\ registry' = [Resolve(registry, op, created) EXCEPT !.calls = @ + 1]
    /\ UNCHANGED <<domainAsm, domainLb, l2, heap, ca, sess, wcall, m, rc>>

(***************************************************************************)
(* A hosting session over the typed wrappers.  The session holds the       *)
(* handles obtained so far; each wrapper is called on the handle the       *)
(* session holds for its receiver, which is nil until a call returned it.  *)
(***************************************************************************)
Handle == [host |-> 1, iu |-> 2, domain |-> 3, assembly |-> 4, method |-> 5,
           henum |-> 6, local |-> 7, info |-> 8]

NoSession ==
    [host |-> NIL, iu |-> NIL, domain |-> NIL, assembly |-> NIL, method |-> NIL,
     started |-> FALSE]

HostOps == {"Start", "Stop", "GetDefaultDomain", "CreateDomain", "EnumDomains",
            "NextDomain", "CloseEnum", "UnloadDomain"}

DomainOps == {"GetFriendlyName", "ToString", "Load_3", "GetAssemblies"}

AssemblyOps == {"GetEntryPoint", "GetFullName"}

UnknownOps == {"QueryInterface"}

\* the wrappers that read a BSTR from the out-parameter
StringOps == {"GetFriendlyName", "ToString", "GetFullName"}

\* the wrappers that go on to iu.QueryInterface
ChainOps == {"CreateDomain", "NextDomain"}

WrapOps == HostOps \cup DomainOps \cup AssemblyOps \cup UnknownOps

\* no native call was made
NoAnswer == [hr |-> S_OK, errno |-> NoErrno, outp |-> NIL]

\* the handle a successful native call writes to the out-parameter
OutHandle(op) ==
    CASE op = "GetDefaultDomain" -> Handle.iu
      [] op = "CreateDomain"     -> Handle.iu
      [] op = "NextDomain"       -> Handle.iu
      [] op = "QueryInterface"   -> Handle.domain
      [] op = "EnumDomains"      -> Handle.henum
      [] op = "Load_3"           -> Handle.assembly
      [] op = "GetAssemblies"    -> Handle.local
      [] op = "GetEntryPoint"    -> Handle.method
      [] OTHER                   -> NIL

\* what a native call may answer: any status with any dispatch error code, the
\* out-parameter written or left nil
Answers(op) ==
    IF op \in StringOps
    THEN [hr : Statuses, errno : Errnos, outp : {BSTR(<<>>), BSTR(N_TestDLL)}]
    ELSE [hr : Statuses, errno : Errnos, outp : {NIL, OutHandle(op)}]

\* the object a wrapper is called on
Receiver(op) ==
    CASE op \in HostOps     -> sess.host
      [] op \in DomainOps   -> sess.domain
      [] op \in AssemblyOps -> sess.assembly
      [] op \in UnknownOps  -> sess.iu

\* the wrapper op on a non-nil receiver
Apply(op, r, q) ==
    CASE op = "Start"            -> Start(r)
      [] op = "Stop"             -> Stop(r)
      [] op = "GetDefaultDomain" -> GetDefaultDomain(r)
      [] op = "CreateDomain"     -> CreateDomain(r, q)
      [] op = "EnumDomains"      -> EnumDomains(r)
      [] op = "NextDomain"       -> NextDomain(r, q)
      [] op = "CloseEnum"        -> CloseEnum(r)
      [] op = "UnloadDomain"     -> UnloadDomain(r)
      [] op = "GetFriendlyName"  -> GetFriendlyName(r)
      [] op = "ToString"         -> DomainToString(r)
      [] op = "Load_3"           -> Load_3(r)
      [] op = "GetAssemblies"    -> GetAssemblies(r)
      [] op = "GetEntryPoint"    -> GetEntryPoint(r)
      [] op = "GetFullName"      -> GetFullName(r)
      [] op = "QueryInterface"   -> QueryInterface(r)

\* a wrapper that issues its native call a second time after a failure
DispatchedAgain(op, obj, r) ==
    <<[slot |-> op, this |-> obj]>>
    \o (IF r.hr # S_OK THEN <<[slot |-> op, this |-> obj]>> ELSE <<>>)

\* the native slots a wrapper dispatches on a non-nil receiver, each with its first
\* argument
Dispatched(op, obj, r) ==
    CASE op = "EnumDomains" -> <<[slot |-> "EnumDomains", this |-> Handle.local]>>
      [] op = "CreateDomain" ->
            <<[slot |-> "CreateDomain", this |-> obj]>>
            \o (IF r.hr = S_OK /\ r.outp # NIL
                THEN <<[slot |-> "QueryInterface", this |-> r.outp]>> ELSE <<>>)
      [] op = "NextDomain" ->
            <<[slot |-> "NextDomain", this |-> obj]>>
            \o (IF r.errno = NoErrno /\ r.hr = S_OK /\ r.outp # NIL
                THEN <<[slot |-> "QueryInterface", this |-> r.outp]>> ELSE <<>>)
      [] op = "GetAppDomain" ->
            <<[slot |-> "GetDefaultDomain", this |-> obj]>>
            \o (IF r.hr = S_OK /\ r.outp # NIL
                THEN <<[slot |-> "QueryInterface", this |-> r.outp]>> ELSE <<>>)
      [] OTHER -> <<[slot |-> op, this |-> obj]>>

\* runtimeInfo.GetInterface was not called
NoInterface == [ret |-> NIL, err |-> NoErr]

\* what runtimeInfo.GetInterface returns: the runtime host, or nil and an error
GetInterfaceResults ==
    {[ret |-> Handle.host, err |-> NoErr],
     [ret |-> NIL, err |-> StatusErr("ICLRRuntimeInfo::GetInterface", E_FAIL)]}

NoWrapCall ==
    [called |-> FALSE, op |-> "none", obj |-> NIL, r |-> NoAnswer, q |-> NoAnswer,
     gi |-> NoInterface,
     out |-> "none", ret |-> NIL, err |-> NoErr, dispatched |-> <<>>]

\* one call of a typed wrapper on the session's handle, up to its return or its
\* panic: reading obj.vtbl of a nil receiver is a nil pointer dereference
WrapCall(op, r, q) ==
    /\ ~wcall.called
    /\ LET obj == Receiver(op)
           res == IF obj = NIL THEN Panic ELSE Apply(op, r, q)
       IN  wcall' = [called |-> TRUE, op |-> op, obj |-> obj,
                 r |-> IF obj = NIL THEN NoAnswer ELSE r,
                 q |-> IF obj # NIL /\ Len(Dispatched(op, obj, r)) = 2 THEN q ELSE NoAnswer,
                 gi |-> NoInterface,
                 out |-> res.out, ret |-> res.ret, err |-> res.err,
                 dispatched |-> IF obj = NIL THEN <<>> ELSE Dispatched(op, obj, r)]
    /\ UNCHANGED <<sess>>
    /\ UNCHANGED <<domainAsm, domainLb, l2, heap, ca, m, rc, registry>>

\* one call of GetICORRuntimeHost(runtimeInfo): GetInterface, then Start on the
\* host it returned
GetICORRuntimeHostCall(gi, r) ==
    /\ ~wcall.called
    /\ LET res == GetICORRuntimeHost(gi, r)
       IN  wcall' = [called |-> TRUE, op |-> "GetICORRuntimeHost", obj |-> Handle.info,
                 r |-> IF gi.err = NoErr THEN r ELSE NoAnswer,
                 q |-> NoAnswer,
                 gi |-> gi,
                 out |-> res.out, ret |-> res.ret, err |-> res.err,
                 dispatched |-> <<[slot |-> "GetInterface", this |-> Handle.info]>>
                                \o (IF gi.err = NoErr
                                    THEN Dispatched("Start", gi.ret, r) ELSE <<>>)]
    /\ UNCHANGED <<sess>>
    /\ UNCHANGED <<domainAsm, domainLb, l2, heap, ca, m, rc, registry>>

\* the handles the caller holds after a call returned without error, and whether
\* the runtime is started
Keep(s, op, ret) ==
    CASE op = "GetDefaultDomain" -> [s EXCEPT !.iu = ret]
      [] op = "GetICORRuntimeHost" -> [s EXCEPT !.host = ret, !.started = TRUE]
      [] op = "GetAppDomain"     -> [s EXCEPT !.domain = ret]
      [] op = "Start"            -> [s EXCEPT !.started = TRUE]
      [] op = "Stop"             -> [s EXCEPT !.started = FALSE]
      [] op = "QueryInterface"   -> [s EXCEPT !.domain = ret]
      [] op = "CreateDomain"     -> [s EXCEPT !.domain = ret]
      [] op = "NextDomain"       -> [s EXCEPT !.domain = ret]
      [] op = "Load_3"           -> [s EXCEPT !.assembly = ret]
      [] op = "GetEntryPoint"    -> [s EXCEPT !.method = ret]
      [] op = "UnloadDomain"     -> [s EXCEPT !.domain = NIL, !.assembly = NIL,
                                              !.method = NIL]
      [] OTHER                   -> s

\* the caller takes the result of the call
WrapReturn ==
    /\ wcall.called /\ wcall.out # "panic"
    /\ sess' = IF wcall.out = "ok" THEN Keep(sess, wcall.op, wcall.ret) ELSE sess
    /\ wcall' = NoWrapCall
    /\ UNCHANGED <<domainAsm, domainLb, l2, heap, ca, m, rc, registry>>

(***************************************************************************)
(* Reference counts.  rc.refs[o] is the number of references on the object *)
(* o that were taken for this code, rc.handles[o] the number of handles to *)
(* o that the caller was handed and has not released.  The native side     *)
(* follows COM: a call that succeeds and writes an interface pointer to    *)
(* its out-parameter has taken one reference for it; AddRef and Release    *)
(* adjust the count by one and answer with the new count.                  *)
(***************************************************************************)
MaxRefs == 4

Objects == {"host", "domain"}

\* the object an interface pointer points to
ObjectOf(h) ==
    IF h = Handle.host THEN "host"
    ELSE IF h \in {Handle.iu, Handle.domain} THEN "domain"
    ELSE "none"

\* the references a native call has taken for the pointer it wrote
NatRefs(r) == IF r.hr = S_OK /\ r.outp # NIL THEN 1 ELSE 0

\* GetAppDomain; r: the answer to GetDefaultDomain, q: to iu.QueryInterface
GetAppDomain(r, q) ==
    LET g == GetDefaultDomain(r)
    IN  IF g.err # NoErr THEN Result(NIL, g.err)
        ELSE IF g.ret = NIL THEN Panic
        ELSE QueryInterface(q)

\* one call of GetAppDomain(runtimeHost) with the session's host
GetAppDomainCall(r, q) ==
    /\ ~wcall.called
    /\ LET obj == sess.host
           res == IF obj = NIL THEN Panic ELSE GetAppDomain(r, q)
           d   == IF obj = NIL THEN <<>> ELSE Dispatched("GetAppDomain", obj, r)
       IN  wcall' = [called |-> TRUE, op |-> "GetAppDomain", obj |-> obj,
                 r |-> IF obj = NIL THEN NoAnswer ELSE r,
                 q |-> IF Len(d) = 2 THEN q ELSE NoAnswer,
                 gi |-> NoInterface,
                 out |-> res.out, ret |-> res.ret, err |-> res.err,
                 dispatched |-> d]
    /\ UNCHANGED <<sess>>
    /\ UNCHANGED <<domainAsm, domainLb, l2, heap, ca, m, rc, registry>>

\* Release that reports the count before the adjustment
ReleaseCountBefore(ret) == ret + 1

\* ICORRuntimeHost.AddRef, AppDomain.AddRef; ret: the count the native call answers
AddRef(ret) == ret

\* ICORRuntimeHost.Release, AppDomain.Release; ret: the count the native call answers
Release(ret) == ret

\* what reading the uint32 at the address the native count is taken for can
\* produce: a fault, or whatever word the memory holds there
MemoryReads ==
    {[fault |-> TRUE, value |-> 0], [fault |-> FALSE, value |-> 0],
     [fault |-> FALSE, value |-> 2]}

\* IUnknown.AddRef; ret: the count the native call answers, mem: what the read of
\* *(*uint32)(unsafe.Pointer(ret)) produces
IUnknownAddRef(ret, errno, mem) ==
    IF errno # NoErrno THEN Result(0, DispatchErr("IUnknown::AddRef", errno))
    ELSE IF mem.fault THEN Panic
    ELSE Result(mem.value, NoErr)

\* IUnknown.Release
IUnknownRelease(ret, errno, mem) ==
    IF errno # NoErrno THEN Result(0, DispatchErr("IUnknown::Release", errno))
    ELSE IF mem.fault THEN Panic
    ELSE Result(mem.value, NoErr)

\* the arguments of a GetDomain call when the call is not one of GetDomain
NoGetDomain ==
    [dName |-> <<>>, en |-> [hr |-> S_OK, errno |-> NoErrno, outp |-> NIL], entries |-> <<>>]

NoRefCall ==
    [called |-> FALSE, op |-> "none", target |-> "none", before |-> 0, after |-> 0,
     ret |-> NIL, out |-> "none", err |-> NoErr, handed |-> 0, dispatched |-> <<>>,
     gd |-> NoGetDomain]

NoRefOp == [op |-> "none", target |-> "none", before |-> 0]

NoRef ==
    [refs |-> [o \in Objects |-> 0], handles |-> [o \in Objects |-> 0],
     prev |-> NoRefOp, call |-> NoRefCall, kept |-> FALSE]

\* the wrappers that hand back a domain obtained through an intermediate IUnknown
DomainGetters == {"CreateDomain", "GetAppDomain", "NextDomain"}

DomainGetter(op, r, q) ==
    CASE op = "CreateDomain" -> CreateDomain(r, q)
      [] op = "GetAppDomain" -> GetAppDomain(r, q)
      [] op = "NextDomain"   -> NextDomain(r, q)

\* the dispatches of a call on the host, each with whether its first argument
\* is an object that holds a reference at that moment; taken: the references the
\* earlier dispatches of the same call have added to the domain object
WithLiveness(d, refs, taken) ==
    [i \in 1..Len(d) |->
        [slot |-> d[i].slot, this |-> d[i].this,
         live |-> LET o == ObjectOf(d[i].this)
                  IN  /\ o # "none"
                      /\ refs[o] + (IF o = "domain" /\ i > 1 THEN taken ELSE 0) > 0]]

\* one call of CreateDomain, GetAppDomain or NextDomain on the host
DomainGetterCall(op, r, q) ==
    /\ ~rc.call.called
    /\ rc.handles["host"] > 0
    /\ rc.refs["domain"] + 2 <= MaxRefs
    /\ LET res   == DomainGetter(op, r, q)
           d     == Dispatched(op, Handle.host, r)
           added == NatRefs(r) + (IF Len(d) = 2 THEN NatRefs(q) ELSE 0)
       IN  rc' = [rc EXCEPT
                    !.refs["domain"] = @ + added,
                    !.call = [called |-> TRUE, op |-> op, target |-> "domain",
                              before |-> rc.refs["domain"],
                              after |-> rc.refs["domain"] + added,
                              ret |-> res.ret, out |-> res.out, err |-> res.err,
                              handed |-> IF res.out = "ok" /\ res.ret # NIL THEN 1 ELSE 0,
                              dispatched |-> WithLiveness(d, rc.refs, NatRefs(r)),
                              gd |-> NoGetDomain]]
    /\ UNCHANGED <<domainAsm, domainLb, l2, heap, ca, sess, wcall, m, registry>>

\* one call of AddRef on a handle the caller holds
AddRefCall(o) ==
    /\ ~rc.call.called
    /\ rc.handles[o] > 0 /\ rc.refs[o] > 0 /\ rc.refs[o] < MaxRefs
    /\ rc' = [rc EXCEPT
                !.refs[o] = @ + 1,
                !.call = [NoRefCall EXCEPT
                            !.called = TRUE, !.op = "AddRef", !.target = o,
                            !.before = rc.refs[o], !.after = rc.refs[o] + 1,
                            !.ret = AddRef(rc.refs[o] + 1), !.out = "ok", !.handed = 1,
                            !.dispatched = <<[slot |-> "AddRef", this |-> Handle[o],
                                             live |-> rc.refs[o] > 0]>>]]
    /\ UNCHANGED <<domainAsm, domainLb, l2, heap, ca, sess, wcall, m, registry>>

\* one call of Release on a handle the caller holds
ReleaseCall(o) ==
    /\ ~rc.call.called
    /\ rc.handles[o] > 0 /\ rc.refs[o] > 0
    /\ rc' = [rc EXCEPT
                !.refs[o] = @ - 1,
                !.call = [NoRefCall EXCEPT
                            !.called = TRUE, !.op = "Release", !.target = o,
                            !.before = rc.refs[o], !.after = rc.refs[o] - 1,
                            !.ret = Release(rc.refs[o] - 1), !.out = "ok",
                            !.dispatched = <<[slot |-> "Release", this |-> Handle[o],
                                             live |-> rc.refs[o] > 0]>>]]
    /\ UNCHANGED <<domainAsm, domainLb, l2, heap, ca, sess, wcall, m, registry>>

\* one call of IUnknown.AddRef on the IUnknown pointer of the domain
IUnknownAddRefCall(errno, mem) ==
    /\ ~rc.call.called
    /\ rc.handles["domain"] > 0 /\ rc.refs["domain"] > 0 /\ rc.refs["domain"] < MaxRefs
    /\ LET res == IUnknownAddRef(rc.refs["domain"] + 1, errno, mem)
       IN  rc' = [rc EXCEPT
                    !.refs["domain"] = @ + 1,
                    !.call = [NoRefCall EXCEPT
                                !.called = TRUE, !.op = "IUnknownAddRef",
                                !.target = "domain",
                                !.before = rc.refs["domain"],
                                !.after = rc.refs["domain"] + 1,
                                !.ret = res.ret, !.out = res.out, !.err = res.err,
                                !.handed = 1,
                                !.dispatched = <<[slot |-> "AddRef", this |-> Handle.iu,
                                                 live |-> rc.refs["domain"] > 0]>>]]
    /\ UNCHANGED <<domainAsm, domainLb, l2, heap, ca, sess, wcall, m, registry>>

\* one call of IUnknown.Release on the IUnknown pointer of the domain
IUnknownReleaseCall(errno, mem) ==
    /\ ~rc.call.called
    /\ rc.handles["domain"] > 0 /\ rc.refs["domain"] > 0
    /\ LET res == IUnknownRelease(rc.refs["domain"] - 1, errno, mem)
       IN  rc' = [rc EXCEPT
                    !.refs["domain"] = @ - 1,
                    !.call = [NoRefCall EXCEPT
                                !.called = TRUE, !.op = "IUnknownRelease",
                                !.target = "domain",
                                !.before = rc.refs["domain"],
                                !.after = rc.refs["domain"] - 1,
                                !.ret = res.ret, !.out = res.out, !.err = res.err,
                                !.dispatched = <<[slot |-> "Release", this |-> Handle.iu,
                                                 live |-> rc.refs["domain"] > 0]>>]]
    /\ UNCHANGED <<domainAsm, domainLb, l2, heap, ca, sess, wcall, m, registry>>

\* the handles the caller holds after a call: one more for each handle handed
\* back, one less after a Release, none once Release has answered 0
HandlesAfter(c, h) ==
    IF c.target \notin Objects THEN h
    ELSE IF c.op \in {"Release", "IUnknownRelease"}
    THEN [h EXCEPT ![c.target] = IF c.ret = 0 THEN 0 ELSE @ - 1]
    ELSE [h EXCEPT ![c.target] = @ + c.handed]

\* the caller takes the result of the call
RefReturn ==
    /\ rc.call.called /\ rc.call.out # "panic"
    /\ rc' = [rc EXCEPT
                !.handles = HandlesAfter(rc.call, @),
                !.prev = [op |-> rc.call.op, target |-> rc.call.target,
                          before |-> rc.call.before],
                !.call = NoRefCall]
    /\ UNCHANGED <<domainAsm, domainLb, l2, heap, ca, sess, wcall, m, registry>>

\* main is not running
NoMain ==
    [variant |-> 0, pc |-> "idle", attempted |-> <<>>, returned |-> <<>>,
     runtimes |-> {}, isLoadable |-> FALSE, fatal |-> "", err |-> NoErr]

NoCall ==
    [called |-> FALSE, search |-> <<>>, fault |-> NoFault,
     out |-> "none", ret |-> NIL, err |-> NoErr, asmb |-> <<>>,
     listed |-> FALSE, fetched |-> <<>>]

EnumInit ==
    /\ domainAsm = <<>>
    /\ domainLb \in LBounds
    /\ l2 = NoCall
    /\ heap = {}
    /\ ca = NoCreate
    /\ registry = NoRegistry
    /\ sess = NoSession
    /\ wcall = NoWrapCall
    /\ m = NoMain
    /\ rc = NoRef

\* the runtime loads one more assembly into the domain: it is reported last
AssemblyLoaded(name, hr) ==
    /\ ~l2.called
    /\ Len(domainAsm) < MaxAsm
    /\ domainAsm' = Append(domainAsm, [h |-> Len(domainAsm) + 1, name |-> name, hr |-> hr])
    /\ UNCHANGED <<domainLb, l2, heap, ca, sess, wcall, m, rc, registry>>

\* one call of AppDomain.Load_2, up to its return
Load_2Call(assemblyString, f) ==
    /\ ~l2.called
    /\ LET r == Load_2(domainAsm, domainLb, assemblyString, f)
       IN  l2' = [called |-> TRUE, search |-> assemblyString, fault |-> f,
                  out |-> r.out, ret |-> r.ret, err |-> r.err, asmb |-> r.asmb,
                  listed |-> r.listed, fetched |-> r.fetched]
    /\ UNCHANGED <<domainAsm, domainLb, heap, ca, sess, wcall, m, rc, registry>>

\* the caller has taken the result (the calls are synchronous, one at a time)
Load_2Return ==
    /\ l2.called
    /\ l2.out # "fatal"
    /\ l2' = NoCall
    /\ UNCHANGED <<domainAsm, domainLb, heap, ca, sess, wcall, m, rc, registry>>

EnumNext ==
    \/ \E name \in AsmNames, hr \in {S_OK, E_FAIL} : AssemblyLoaded(name, hr)
    \/ \E s \in SearchStrings, f \in Faults : Load_2Call(s, f)
    \/ Load_2Return

SpecEnum == EnumInit /\ [][EnumNext]_vars

ArrInit ==
    /\ heap = {}
    /\ ca = NoCreate
    /\ registry = NoRegistry
    /\ sess = NoSession
    /\ wcall = NoWrapCall
    /\ m = NoMain
    /\ rc = NoRef
    /\ domainAsm = <<>>
    /\ domainLb = 0
    /\ l2 = NoCall

ArrNext ==
    \/ \E b \in ByteSeqs, f \in ArrFaults : CreateSafeArrayCall(b, f)
    \/ ReadElements
    \/ CreateSafeArrayReturn
    \/ \E psa \in heap : SafeArrayDestroyCall(psa)
    \/ \E psa \in heap, f \in {NoFault, [call |-> "SafeArrayCreate", kind |-> "missing", at |-> 0]} :
            SafeArrayLockCall(psa, f)
    \/ SafeArrayLockReturn

SpecArr == ArrInit /\ [][ArrNext]_vars

RegInit ==
    /\ registry = NoRegistry
    /\ heap = {}
    /\ ca = NoCreate
    /\ sess = NoSession
    /\ wcall = NoWrapCall
    /\ m = NoMain
    /\ rc = NoRef
    /\ domainAsm = <<>>
    /\ domainLb = 0
    /\ l2 = NoCall

RegNext == \E op \in ArrayOperations, created \in BOOLEAN : ArrayOperationCall(op, created)

SpecRegistry == RegInit /\ [][RegNext]_vars

(***************************************************************************)
(* ICORRuntimeHost.GetDomain: the search of the process's domains by       *)
(* friendly name.  The enumeration is a list of entries [r, q, n]: what    *)
(* NextDomain, the QueryInterface inside it and GetFriendlyName answer for *)
(* one domain; past the last entry NextDomain answers S_FALSE.             *)
(***************************************************************************)
MaxDomains == 2

D_main == <<"m", "a", "i", "n">>

D_MAIN == <<"M", "A", "I", "N">>

D_lib == <<"l", "i", "b">>

DomainNames == {D_main, D_MAIN, D_lib}

\* strings.HasSuffix
HasSuffix(s, suffix) ==
    Len(s) >= Len(suffix) /\ SubSeq(s, Len(s) - Len(suffix) + 1, Len(s)) = suffix

\* strings.EqualFold
EqualFold(a, b) == ToLower(a) = ToLower(b)

\* NextDomain's answer when the enumeration has no more domains: S_FALSE
EndOfEnum == [hr |-> 1, errno |-> NoErrno, outp |-> NIL]

Answered(hr, errno, outp) == [hr |-> hr, errno |-> errno, outp |-> outp]

\* a domain that enumerates and names itself name
GoodEntry(name) ==
    [r |-> Answered(S_OK, NoErrno, Handle.iu), q |-> Answered(S_OK, NoErrno, Handle.domain),
     n |-> Answered(S_OK, NoErrno, BSTR(name))]

\* the entries of an enumeration: domains that answer well, and domains for which
\* NextDomain, QueryInterface or GetFriendlyName fails
DomainEntries ==
    {GoodEntry(name) : name \in DomainNames}
    \cup {[GoodEntry(D_main) EXCEPT !.r = Answered(E_FAIL, NoErrno, NIL)],
          [GoodEntry(D_main) EXCEPT !.r = Answered(S_OK, ERROR_ACCESS_DENIED, Handle.iu)],
          [GoodEntry(D_main) EXCEPT !.q = Answered(E_FAIL, NoErrno, NIL)],
          [GoodEntry(D_main) EXCEPT !.q = Answered(1, NoErrno, NIL)],
          [GoodEntry(D_main) EXCEPT !.n = Answered(E_FAIL, NoErrno, BSTR(<<>>))]}

\* the native EnumDomains is entered with the address of the wrapper's local
\* variable in place of the host: what it reads through that address is not an
\* ICorRuntimeHost, and the call may end in an access violation
STATUS_ACCESS_VIOLATION == 0 - 1073741819

Faulted(en) == en.hr = STATUS_ACCESS_VIOLATION

\* the answers EnumDomains gets
EnumAnswers ==
    {Answered(S_OK, NoErrno, Handle.henum), Answered(E_FAIL, NoErrno, NIL),
     Answered(S_OK, ERROR_ACCESS_DENIED, Handle.henum),
     Answered(STATUS_ACCESS_VIOLATION, NoErrno, NIL)}

\* err.Error() ends in "0x1"
EndsIn0x1(err) == HasSuffix(err.text, <<"0", "x", "1">>)

NotFoundDomain(dName) == [tier |-> "notfound", op |-> "GetDomain", code |-> 0, text |-> dName]

\* the for loop of GetDomain from the i-th NextDomain on; d: the dispatches so
\* far, added: the references taken so far
RECURSIVE GetDomainLoop(_, _, _, _, _)
GetDomainLoop(dName, entries, i, d, added) ==
    LET e   == IF i <= Len(entries) THEN entries[i]
               ELSE [GoodEntry(<<>>) EXCEPT !.r = EndOfEnum]
        ad  == NextDomain(e.r, e.q)
        d1  == d \o Dispatched("NextDomain", Handle.host, e.r)
        a1  == added + NatRefs(e.r)
                     + (IF Len(Dispatched("NextDomain", Handle.host, e.r)) = 2
                        THEN NatRefs(e.q) ELSE 0)
    IN  IF ad.out = "panic" THEN [res |-> Panic, dispatched |-> d1, added |-> a1, at |-> i]
        ELSE IF ad.err # NoErr
        THEN IF EndsIn0x1(ad.err)
             THEN [res |-> Result(NIL, NotFoundDomain(dName)), dispatched |-> d1,
                   added |-> a1, at |-> i]
             ELSE [res |-> Result(NIL, ad.err), dispatched |-> d1, added |-> a1, at |-> i]
        ELSE IF ad.ret = NIL
        THEN [res |-> Panic, dispatched |-> d1, added |-> a1, at |-> i]
        ELSE LET thisName == GetFriendlyName(e.n)
                 d2       == Append(d1, [slot |-> "GetFriendlyName", this |-> ad.ret])
             IN  IF thisName.err # NoErr
                 THEN [res |-> Result(NIL, thisName.err), dispatched |-> d2,
                       added |-> a1, at |-> i]
                 ELSE IF EqualFold(dName, thisName.ret)
                 THEN [res |-> Result(ad.ret, NoErr), dispatched |-> d2,
                       added |-> a1, at |-> i]
                 ELSE GetDomainLoop(dName, entries, i + 1, d2, a1)

\* ICORRuntimeHost.GetDomain; en: the answer to EnumDomains
GetDomain(dName, en, entries) ==
    LET hEnum == EnumDomains(en)
        d0    == Dispatched("EnumDomains", Handle.host, en)
    IN  IF Faulted(en)
        THEN [res |-> Panic, dispatched |-> d0, added |-> 0, at |-> 0]
        ELSE IF hEnum.err # NoErr
        THEN [res |-> Result(NIL, hEnum.err), dispatched |-> d0, added |-> 0, at |-> 0]
        ELSE GetDomainLoop(dName, entries, 1, d0, 0)

\* the enumerations of up to MaxDomains domains
Enumerations == UNION {[1..n -> DomainEntries] : n \in 0..MaxDomains}

\* one call of GetDomain on the host
GetDomainCall(dName, en, entries) ==
    /\ ~rc.call.called
    /\ rc.handles["host"] > 0
    /\ rc.refs["domain"] + GetDomain(dName, en, entries).added <= MaxRefs
    /\ LET g == GetDomain(dName, en, entries)
       IN  rc' = [rc EXCEPT
                    !.refs["domain"] = @ + g.added,
                    !.call = [called |-> TRUE, op |-> "GetDomain", target |-> "domain",
                              before |-> rc.refs["domain"],
                              after |-> rc.refs["domain"] + g.added,
                              ret |-> g.res.ret, out |-> g.res.out, err |-> g.res.err,
                              handed |-> IF g.res.out = "ok" THEN 1 ELSE 0,
                              dispatched |-> WithLiveness(g.dispatched, rc.refs, 1),
                              gd |-> IF rc.kept
                                     THEN [dName |-> dName, en |-> en, entries |-> entries]
                                     ELSE NoGetDomain]]
    /\ UNCHANGED <<domainAsm, domainLb, l2, heap, ca, sess, wcall, m, registry>>

RefInit ==
    /\ rc = [NoRef EXCEPT !.refs["host"] = 1, !.handles["host"] = 1]
    /\ m = NoMain
    /\ sess = NoSession
    /\ wcall = NoWrapCall
    /\ domainAsm = <<>>
    /\ domainLb = 0
    /\ l2 = NoCall
    /\ heap = {}
    /\ ca = NoCreate
    /\ registry = NoRegistry

RefNext ==
    \/ \E op \in DomainGetters :
          \E r \in Answers(IF op = "GetAppDomain" THEN "GetDefaultDomain" ELSE op),
             q \in Answers("QueryInterface") :
                DomainGetterCall(op, r, q)
    \/ \E o \in Objects : AddRefCall(o)
    \/ \E o \in Objects : ReleaseCall(o)
    \/ \E errno \in Errnos, mem \in MemoryReads : IUnknownAddRefCall(errno, mem)
    \/ \E errno \in Errnos, mem \in MemoryReads : IUnknownReleaseCall(errno, mem)
    \/ \E dName \in {D_main, D_lib}, en \in EnumAnswers, entries \in Enumerations :
            GetDomainCall(dName, en, entries)
    \/ RefReturn

SpecRef == RefInit /\ [][RefNext]_vars

\* the calls of GetDomain alone, the arguments of each call kept with its result
ScanInit ==
    /\ rc = [NoRef EXCEPT !.refs["host"] = 1, !.handles["host"] = 1, !.kept = TRUE]
    /\ m = NoMain
    /\ sess = NoSession
    /\ wcall = NoWrapCall
    /\ domainAsm = <<>>
    /\ domainLb = 0
    /\ l2 = NoCall
    /\ heap = {}
    /\ ca = NoCreate
    /\ registry = NoRegistry

ScanNext ==
    \/ \E dName \in {D_main, D_lib}, en \in EnumAnswers, entries \in Enumerations :
            GetDomainCall(dName, en, entries)
    \/ RefReturn

SpecScan == ScanInit /\ [][ScanNext]_vars

\* the session starts with the runtime host obtained and nothing else
WrapInit ==
    /\ sess = [NoSession EXCEPT !.host = Handle.host, !.started = TRUE]
    /\ wcall = NoWrapCall
    /\ m = NoMain
    /\ rc = NoRef
    /\ domainAsm = <<>>
    /\ domainLb = 0
    /\ l2 = NoCall
    /\ heap = {}
    /\ ca = NoCreate
    /\ registry = NoRegistry

WrapNext ==
    \/ \E op \in WrapOps \ ChainOps : \E r \in Answers(op) : WrapCall(op, r, NoAnswer)
    \/ \E op \in ChainOps : \E r \in Answers(op), q \in Answers("QueryInterface") :
            WrapCall(op, r, q)
    \/ \E gi \in GetInterfaceResults : \E r \in Answers("Start") :
            GetICORRuntimeHostCall(gi, r)
    \/ \E r \in Answers("GetDefaultDomain"), q \in Answers("QueryInterface") :
            GetAppDomainCall(r, q)
    \/ WrapReturn

SpecWrap == WrapInit /\ [][WrapNext]_vars

(***************************************************************************)
(* The example host (examples/DLLfromDisk): main's bring-up sequence.      *)
(* The functions main calls are its environment: each returns a value and  *)
(* an error.  m.pc is the next call of main, "exit" after log.Fatal or the *)
(* end of main, "panic" after a nil pointer dereference; m.attempted lists *)
(* the calls made so far.                                                  *)
(***************************************************************************)
MainErrs == {NoErr, StatusErr("main", E_FAIL), DispatchErr("main", ERROR_ACCESS_DENIED)}

RuntimeVersions == {"v2.0.50727", "v4.0.30319"}

IsLoadableFalse == "[!] IsLoadable returned false. Bailing..."

NonZeroReturn == "non-zero return value"

\* must that goes on whatever err is
mustContinue(s, err, next) == [s EXCEPT !.pc = next]

\* must(err), then on to the call next: log.Fatal ends the process
must(s, err, next) ==
    IF err # NoErr
    THEN [s EXCEPT !.pc = "exit", !.fatal = "must", !.err = err]
    ELSE [s EXCEPT !.pc = next]

\* main after IsLoadable answered, without the test of isLoadable
AfterIsLoadableUnchecked(s, isLoadable, err) ==
    must([s EXCEPT !.isLoadable = isLoadable], err, "GetInterface")

\* main after IsLoadable answered: must(err), then the test of isLoadable
AfterIsLoadable(s, isLoadable, err) ==
    LET t == must([s EXCEPT !.isLoadable = isLoadable], err, "GetInterface")
    IN  IF t.pc # "exit" /\ ~isLoadable
        THEN [t EXCEPT !.pc = "exit", !.fatal = IsLoadableFalse]
        ELSE t

\* the *uint32 ExecuteInDefaultAppDomain may return: nil, or a pointer to a value
Rets == {[isNil |-> TRUE, val |-> 0], [isNil |-> FALSE, val |-> 0], [isNil |-> FALSE, val |-> 1]}

\* main after ExecuteInDefaultAppDomain answered: *ret is read before must(err)
AfterExecute(s, ret, err) ==
    IF ret.isNil THEN [s EXCEPT !.pc = "panic"]
    ELSE IF ret.val # 0
    THEN [s EXCEPT !.pc = "exit", !.fatal = "must",
                   !.err = [tier |-> "status", op |-> "ICLRRuntimeHost::ExecuteInDefaultAppDomain",
                            code |-> ret.val, text |-> NonZeroReturn]]
    ELSE must(s, err, "done")

\* main has called call and got err back
Attempt(s, call, err) ==
    [s EXCEPT !.attempted = Append(@, call), !.returned = Append(@, err)]

MainCLRCreateInstance(err) ==
    /\ m.pc = "CLRCreateInstance"
    /\ m' = must(Attempt(m, "CLRCreateInstance", err), err, "GetInstalledRuntimes")
    /\ UNCHANGED <<domainAsm, domainLb, l2, heap, ca, sess, wcall, rc, registry>>

MainGetInstalledRuntimes(installedRuntimes, err) ==
    /\ m.pc = "GetInstalledRuntimes"
    /\ m' = must([Attempt(m, "GetInstalledRuntimes", err) EXCEPT
                     !.runtimes = IF err = NoErr THEN installedRuntimes ELSE {}],
                 err, "GetRuntime")
    /\ UNCHANGED <<domainAsm, domainLb, l2, heap, ca, sess, wcall, rc, registry>>

MainGetRuntime(err) ==
    /\ m.pc = "GetRuntime"
    /\ m' = must(Attempt(m, "GetRuntime", err), err, "IsLoadable")
    /\ UNCHANGED <<domainAsm, domainLb, l2, heap, ca, sess, wcall, rc, registry>>

MainIsLoadable(isLoadable, err) ==
    /\ m.pc = "IsLoadable"
    /\ m' = AfterIsLoadable(Attempt(m, "IsLoadable", err), isLoadable, err)
    /\ UNCHANGED <<domainAsm, domainLb, l2, heap, ca, sess, wcall, rc, registry>>

MainGetInterface(err) ==
    /\ m.pc = "GetInterface"
    /\ m' = must(Attempt(m, "GetInterface", err), err, "Start")
    /\ UNCHANGED <<domainAsm, domainLb, l2, heap, ca, sess, wcall, rc, registry>>

MainStart(err) ==
    /\ m.pc = "Start"
    /\ m' = must(Attempt(m, "Start", err), err, "ExecuteInDefaultAppDomain")
    /\ UNCHANGED <<domainAsm, domainLb, l2, heap, ca, sess, wcall, rc, registry>>

MainExecuteInDefaultAppDomain(ret, err) ==
    /\ m.pc = "ExecuteInDefaultAppDomain"
    /\ m' = AfterExecute(Attempt(m, "ExecuteInDefaultAppDomain", err), ret, err)
    /\ UNCHANGED <<domainAsm, domainLb, l2, heap, ca, sess, wcall, rc, registry>>

\* the file holds two versions of main: the first hands GetInterface a pointer to
\* fill in, the second takes the runtime host from its result
MainVariants == {1, 2}

MainInit ==
    /\ \E v \in MainVariants : m = [NoMain EXCEPT !.variant = v, !.pc = "CLRCreateInstance"]
    /\ rc = NoRef
    /\ sess = NoSession
    /\ wcall = NoWrapCall
    /\ domainAsm = <<>>
    /\ domainLb = 0
    /\ l2 = NoCall
    /\ heap = {}
    /\ ca = NoCreate
    /\ registry = NoRegistry

MainNext ==
    \/ \E err \in MainErrs : MainCLRCreateInstance(err)
    \/ \E rts \in SUBSET RuntimeVersions, err \in MainErrs : MainGetInstalledRuntimes(rts, err)
    \/ \E err \in MainErrs : MainGetRuntime(err)
    \/ \E b \in BOOLEAN, err \in MainErrs : MainIsLoadable(b, err)
    \/ \E err \in MainErrs : MainGetInterface(err)
    \/ \E err \in MainErrs : MainStart(err)
    \/ \E ret \in Rets, err \in MainErrs : MainExecuteInDefaultAppDomain(ret, err)

SpecMain == MainInit /\ [][MainNext]_vars

(***************************************************************************)
(* Properties of the enumerator (checked under SpecEnum)                   *)
(***************************************************************************)
SearchTestdll == <<"t","e","s","t","d","l","l">>

\* the array index of the entry with handle h
IndexOf(h) == CHOOSE k \in 1..Len(domainAsm) : domainAsm[k].h = h

\* the name of entry k, case-folded, starts with the case-folded search string
NameMatches(k, search) ==
    LET name == domainAsm[k].name
        low  == [i \in 1..Len(name) |-> ToLowerChar(name[i])]
        pre  == [i \in 1..Len(search) |-> ToLowerChar(search[i])]
    IN  /\ Len(low) >= Len(pre)
        /\ \A i \in 1..Len(pre) : low[i] = pre[i]

\* the last call could read the name of entry k: get_FullName answered S_OK
\* and left no dispatch error code
NameRead(k) ==
    /\ domainAsm[k].hr = S_OK
    /\ ~(l2.fault.call = "get_FullName" /\ l2.fault.at = k - 1)

\* the last call got the whole array from ListAssemblies
ScanCompleted ==
    /\ l2.called
    /\ l2.out # "fatal"
    /\ l2.err.tier \in {"nil", "notfound"}

\* C1: whenever Load_2 returns an assembly, that assembly's full name,
\* lower-cased, starts with the lower-cased search string; and a search for
\* "testdll" over an array holding a readable "TestDLL, Version=1" entry
\* returns an entry of that name.
C1_CaseInsensitivePrefix ==
    /\ (l2.called /\ l2.out = "ok")
          => (l2.ret # NIL /\ NameMatches(IndexOf(l2.ret), l2.search))
    /\ (/\ l2.called
        /\ l2.search = SearchTestdll
        /\ l2.fault = NoFault
        /\ \E k \in 1..Len(domainAsm) :
              domainAsm[k].name = N_TestDLL /\ domainAsm[k].hr = S_OK)
          => (l2.out = "ok" /\ domainAsm[IndexOf(l2.ret)].name = N_TestDLL)

C1_Witness ==
    /\ l2.called
    /\ l2.search = SearchTestdll
    /\ l2.out = "ok"
    /\ domainAsm[IndexOf(l2.ret)].name = N_TestDLL

\* C2 as stated: Load_2 returns the first matching entry in the order the
\* domain reports: no entry at a smaller array index than the returned one has a
\* name matching the search string, and the list scanned is the array in its order.
C2_FirstMatch_Original ==
    (l2.called /\ l2.out = "ok") =>
        /\ \A k \in 1..(IndexOf(l2.ret) - 1) : ~NameMatches(k, l2.search)
        /\ l2.asmb = [k \in 1..Len(domainAsm) |-> domainAsm[k].h]

\* C2 as amended: no entry at a smaller array index than the returned one has
\* a name that could be read and matches the search string (an entry whose name
\* cannot be read is passed over), and the list scanned is the array in the
\* order the domain reports it.
C2_FirstReadableMatch ==
    (l2.called /\ l2.out = "ok") =>
        /\ \A k \in 1..(IndexOf(l2.ret) - 1) :
              ~(NameRead(k) /\ NameMatches(k, l2.search))
        /\ l2.asmb = [k \in 1..Len(domainAsm) |-> domainAsm[k].h]

\* a later match is returned although an earlier entry matches too
C2_Witness ==
    /\ l2.called
    /\ l2.out = "ok"
    /\ IndexOf(l2.ret) = 2
    /\ NameMatches(1, l2.search) /\ ~NameRead(1)
    /\ Len(domainAsm) = 3 /\ NameMatches(3, l2.search) /\ NameRead(3)

\* C3 as stated: Load_2 fails with the not-found error, and returns no
\* assembly, exactly when the scan of the whole array completes without any
\* entry whose name matches the search string.
C3_NotFound_Original ==
    (l2.called /\ l2.out # "fatal") =>
        /\ (l2.err.tier = "notfound") <=>
              (/\ ScanCompleted
               /\ \A k \in 1..Len(domainAsm) : ~NameMatches(k, l2.search))
        /\ (l2.err.tier = "notfound") => (l2.ret = NIL)

\* C3 as amended: Load_2 fails with the not-found error, and returns no
\* assembly, exactly when ListAssemblies hands over the whole array and no entry
\* has a name that could be read and matches the search string.
C3_NotFoundIffNoReadableMatch ==
    (l2.called /\ l2.out # "fatal") =>
        /\ (l2.err.tier = "notfound") <=>
              (/\ ListAssemblies(domainAsm, domainLb, l2.fault).out = "ok"
               /\ \A k \in 1..Len(domainAsm) :
                     ~(NameRead(k) /\ NameMatches(k, l2.search)))
        /\ (l2.err.tier = "notfound") => (l2.ret = NIL /\ l2.err.text = l2.search)

\* not-found over a non-empty array none of whose readable names matches
C3_Witness ==
    /\ l2.called
    /\ l2.err.tier = "notfound"
    /\ Len(domainAsm) = 2
    /\ NameRead(1) /\ NameRead(2)
    /\ l2.search # <<>>

(***************************************************************************)
(* Properties of the array marshaler (checked under SpecArr)               *)
(***************************************************************************)
\* C4: for every byte sequence B, CreateSafeArray(B) builds an array (when
\* no native call fails) and reading the elements at the indices from the lower
\* to the upper bound yields exactly the bytes of B in their order.
C4_RoundTrip ==
    /\ (ca.called /\ ca.fault = NoFault) => (ca.out = "ok")
    /\ (ca.called /\ ca.readDone) => (ca.read = ca.raw)

\* the part of C4 the code keeps: what is read back from a returned array is B
C4_RoundTripOfReturnedArrays ==
    (ca.called /\ ca.readDone) => (ca.read = ca.raw)

\* C5: every array CreateSafeArray(B) returns has exactly one dimension,
\* lower bound 0, len(B) elements of one byte each; SafeArrayGetDim reports 1
\* and the bounds read are (0, len(B) - 1).
C5_OneDimensionZeroBasedBytes ==
    (ca.called /\ ca.out = "ok") =>
        LET d == Deref(ca.ret)
        IN  /\ d.cDims = 1
            /\ d.lLbound = 0
            /\ d.cElements = Len(ca.raw)
            /\ d.cbElements = 1
            /\ Len(d.pvData) = Len(ca.raw)
            /\ ca.readDone =>
                  /\ ca.dims = 1
                  /\ ca.lbound = 0
                  /\ ca.ubound >= 0
                  /\ ca.ubound = Len(ca.raw) - 1

C5_Witness ==
    /\ ca.called /\ ca.out = "ok" /\ ca.readDone
    /\ Len(ca.raw) = 3
    /\ ca.dims = 1
    /\ ca.ubound = 2

(***************************************************************************)
(* Properties of the typed wrappers (checked under SpecWrap)               *)
(***************************************************************************)
\* the wrapper call dispatched and came back to its caller
Returned ==
    wcall.called /\ wcall.op \in WrapOps /\ wcall.obj # NIL /\ wcall.out # "panic"

HexDigitValue(c) == (CHOOSE k \in 1..16 : HexDigits[k] = c) - 1

RECURSIVE HexNat(_)
HexNat(d) == IF d = <<>> THEN 0 ELSE 16 * HexNat(SubSeq(d, 1, Len(d) - 1)) + HexDigitValue(d[Len(d)])

\* the 32-bit value that the text "0x..." denotes, as its int32 reading
ParseHex(text) ==
    LET d == SubSeq(text, 3, Len(text))
    IN  IF Len(d) < 8 THEN HexNat(d)
        ELSE LET high == HexDigitValue(d[1])
                 low  == HexNat(SubSeq(d, 2, 8))
             IN  IF high < 8 THEN high * 268435456 + low
                 ELSE (((high - 8) * 268435456 + low) - MaxInt32) - 1

\* the failure is of the status tier and holds the status, as a number and in its text
CarriesStatus(err, hr) ==
    /\ err.tier = "status"
    /\ err.code = hr
    /\ SubSeq(err.text, 1, 2) = <<"0", "x">>
    /\ ParseHex(err.text) = hr

\* the failure holds the dispatch error code
CarriesErrno(err, errno) ==
    /\ err.tier \in {"dispatch", "errno"}
    /\ err.code = errno

\* C6 as stated: every typed wrapper returns a failure whenever the status is
\* nonzero, returns success only when the status is 0, and the failure carries
\* the status value unchanged.
C6_StatusMapping_Original ==
    Returned =>
        /\ (wcall.r.hr # S_OK => wcall.out = "err")
        /\ (wcall.out = "ok" => wcall.r.hr = S_OK)
        /\ (wcall.r.hr # S_OK => CarriesStatus(wcall.err, wcall.r.hr))

\* C6, amended: every typed wrapper returns a failure whenever the status is
\* nonzero and returns success only when the status is 0; the failure carries the
\* status value unchanged, unless the call also reported a nonzero dispatch
\* error code, in which case the failure may carry that code instead.
C6_StatusMapping ==
    Returned =>
        /\ (wcall.r.hr # S_OK => wcall.out = "err")
        /\ (wcall.out = "ok" => wcall.r.hr = S_OK)
        /\ (wcall.r.hr # S_OK =>
               \/ CarriesStatus(wcall.err, wcall.r.hr)
               \/ wcall.r.errno # NoErrno /\ CarriesErrno(wcall.err, wcall.r.errno))
        /\ (wcall.r.hr # S_OK /\ wcall.r.errno = NoErrno =>
               CarriesStatus(wcall.err, wcall.r.hr))

\* Load_3 was answered with the status 0x80004005 alone and returned it
C6_Witness ==
    /\ Returned /\ wcall.op = "Load_3"
    /\ wcall.r.hr = E_FAIL /\ wcall.r.errno = NoErrno
    /\ wcall.out = "err" /\ wcall.err.code = E_FAIL

\* the dispatch error codes the source names as ignorable
Allowlist == {ERROR_OLD_WIN_VERSION}

\* C7: for Start, GetDefaultDomain, CreateDomain and Load_3, a call that reports
\* status 0 together with a dispatch error code that is not on the allowlist
\* returns a failure to the caller.
C7_AllowlistNotBlanket ==
    (/\ Returned
     /\ wcall.op \in {"Start", "GetDefaultDomain", "CreateDomain", "Load_3"}
     /\ wcall.r.hr = S_OK
     /\ wcall.r.errno # NoErrno
     /\ wcall.r.errno \notin Allowlist)
    => wcall.out = "err"

\* the name a wrapper's failures give to the wrapper itself
OwnName(op) ==
    CASE op \in HostOps -> <<"ICORRuntimeHost", op>>
      [] op \in DomainOps -> <<"AppDomain", op>>
      [] op \in AssemblyOps -> <<"Assembly", op>>
      [] op \in UnknownOps -> <<"IUnknown", op>>

\* the interface and the operation that the text of a failure names
NamedIn(name) ==
    CASE name = "ICORRuntimeHost::Start"            -> <<"ICORRuntimeHost", "Start">>
      [] name = "ICORRuntimeHost::Stop"             -> <<"ICORRuntimeHost", "Stop">>
      [] name = "ICORRuntimeHost::GetDefaultDomain" -> <<"ICORRuntimeHost", "GetDefaultDomain">>
      [] name = "ICORRuntimeHost::CreateDomain"     -> <<"ICORRuntimeHost", "CreateDomain">>
      [] name = "ICORRuntimeHost::EnumDomains"      -> <<"ICORRuntimeHost", "EnumDomains">>
      [] name = "ICORRuntimeHost::NextDomain"       -> <<"ICORRuntimeHost", "NextDomain">>
      [] name = "ICORRuntimeHost::CloseEnum"        -> <<"ICORRuntimeHost", "CloseEnum">>
      [] name = "ICORRuntimeHost::UnloadDomain"     -> <<"ICORRuntimeHost", "UnloadDomain">>
      [] name = "appdomain.GetFriendlyName"         -> <<"AppDomain", "GetFriendlyName">>
      [] name = "AppDomain.ToString"                -> <<"AppDomain", "ToString">>
      [] name = "appdomain.Load_3"                  -> <<"AppDomain", "Load_3">>
      [] name = "AppDomain.GetAssemblies"           -> <<"AppDomain", "GetAssemblies">>
      [] name = "Assembly::GetEntryPoint"           -> <<"Assembly", "GetEntryPoint">>
      [] name = "Assembly::GetFullName"             -> <<"Assembly", "GetFullName">>
      [] name = "IUknown::QueryInterface"           -> <<"IUnknown", "QueryInterface">>
      [] OTHER                                      -> <<"", name>>

\* C8: the operation named in a returned failure is the operation that was
\* invoked (or, for a wrapper that goes on to QueryInterface, the QueryInterface
\* that failed inside it).
C8_FailureNamesInvokedOperation ==
    (Returned /\ wcall.out = "err" /\ wcall.err.tier \in {"status", "dispatch"})
    => \/ NamedIn(wcall.err.op) = OwnName(wcall.op)
       \/ /\ Len(wcall.dispatched) = 2
          /\ NamedIn(wcall.err.op) = OwnName("QueryInterface")

\* C9: Assembly.GetEntryPoint with no loaded assembly handle fails with an
\* InvalidState error value; it does not fault and does not dispatch a native call.
C9_InvalidStateBeforeAssemblyLoaded ==
    (wcall.called /\ wcall.op = "GetEntryPoint" /\ sess.assembly = NIL)
    => /\ wcall.out = "err"
       /\ wcall.err.tier = "invalidstate"
       /\ wcall.dispatched = <<>>

(***************************************************************************)
(* Properties of the example host (checked under SpecMain)                 *)
(***************************************************************************)
Attempted(call) == \E i \in 1..Len(m.attempted) : m.attempted[i] = call

\* IsLoadable has answered false without an error
ReportedNotLoadable ==
    /\ Attempted("IsLoadable")
    /\ ~m.isLoadable
    /\ ~(m.fatal = "must" /\ m.attempted[Len(m.attempted)] = "IsLoadable")

\* C10: when IsLoadable reports false, main ends there with the not-loadable
\* failure, and no later operation (GetInterface, Start,
\* ExecuteInDefaultAppDomain) is ever attempted.
C10_NotLoadableStopsBringUp ==
    ReportedNotLoadable =>
        /\ m.pc = "exit"
        /\ m.fatal = IsLoadableFalse
        /\ m.attempted = <<"CLRCreateInstance", "GetInstalledRuntimes", "GetRuntime",
                           "IsLoadable">>

\* main has ended because IsLoadable answered false
C10_Witness ==
    /\ ReportedNotLoadable
    /\ m.pc = "exit"
    /\ m.fatal = IsLoadableFalse

\* the calls of main in the order of the stages they belong to
StageCalls ==
    <<"CLRCreateInstance", "GetInstalledRuntimes", "GetRuntime", "IsLoadable",
      "GetInterface", "Start", "ExecuteInDefaultAppDomain">>

\* the stage a call of main works towards: 1 Uninitialized (the meta-host),
\* 2 RuntimeSelected, 3 HostStarted, 7 Executed
StageOfCall(call) ==
    CASE call \in {"CLRCreateInstance", "GetInstalledRuntimes"} -> 1
      [] call \in {"GetRuntime", "IsLoadable"}                   -> 2
      [] call \in {"GetInterface", "Start"}                      -> 3
      [] call = "ExecuteInDefaultAppDomain"                      -> 7

\* the i-th call of main succeeded
Succeeded(i) ==
    /\ m.returned[i] = NoErr
    /\ (m.attempted[i] = "IsLoadable" => m.isLoadable)

C12_OneReferencePerHandle ==
    (/\ rc.call.called /\ rc.call.op \in DomainGetters
     /\ rc.call.out = "ok" /\ rc.call.handed = 1)
    => rc.call.after - rc.call.before = rc.call.handed

C14_CallsTargetLiveObjects ==
    rc.call.called =>
        \A i \in 1..Len(rc.call.dispatched) : rc.call.dispatched[i].live

\* the part of C14 that holds: every native call other than EnumDomains is made
\* on an object whose reference count is greater than 0
C14_CallsButEnumDomainsTargetLiveObjects ==
    rc.call.called =>
        \A i \in 1..Len(rc.call.dispatched) :
            rc.call.dispatched[i].slot # "EnumDomains" => rc.call.dispatched[i].live

(***************************************************************************)
(* Properties of the array operations under a missing library or export    *)
(* (checked under SpecArr)                                                 *)
(***************************************************************************)
\* C15: when the library or the exported function an array operation needs is
\* missing, the operation returns a failure value to its caller; it does not
\* abort the process.
C15_DispatchFailureIsReturned ==
    (ca.called /\ ca.fault.kind = "missing")
    => /\ ca.out = "err"
       /\ ca.err # NoErr

(***************************************************************************)
(* C16: a wrapper invocation dispatches each of its native methods at most *)
(* once, dispatches nothing but its own methods (no compensating call),    *)
(* and makes no further native call after one that failed.                 *)
(***************************************************************************)
\* the native methods a wrapper may dispatch
OwnSlots(op) ==
    CASE op = "GetICORRuntimeHost" -> {"GetInterface", "Start"}
      [] op = "GetAppDomain"       -> {"GetDefaultDomain", "QueryInterface"}
      [] op \in ChainOps          -> {op, "QueryInterface"}
      [] OTHER                     -> {op}

\* the status the i-th native call of the invocation answered
AnswerStatus(i) ==
    IF wcall.op = "GetICORRuntimeHost"
    THEN IF i = 1 THEN wcall.gi.err.code ELSE wcall.r.hr
    ELSE IF i = 1 THEN wcall.r.hr ELSE wcall.q.hr

C16_NoRetry ==
    wcall.called =>
        /\ \A i, j \in 1..Len(wcall.dispatched) :
              i # j => wcall.dispatched[i].slot # wcall.dispatched[j].slot
        /\ \A i \in 1..Len(wcall.dispatched) :
              wcall.dispatched[i].slot \in OwnSlots(wcall.op)
        /\ \A i \in 1..(Len(wcall.dispatched) - 1) : AnswerStatus(i) = S_OK

\* GetICORRuntimeHost whose Start failed, and Start or Load_3 failed alone
C16_Witness ==
    /\ wcall.called /\ wcall.out = "err"
    /\ wcall.op = "GetICORRuntimeHost"
    /\ wcall.gi.err = NoErr /\ wcall.r.hr = E_FAIL
    /\ Len(wcall.dispatched) = 2

C16_WitnessLoad_3 ==
    /\ wcall.called /\ wcall.out = "err" /\ wcall.op = "Load_3"
    /\ Len(wcall.dispatched) = 1

(***************************************************************************)
(* C17: the stage of the session, and Stop at or after HostStarted.        *)
(***************************************************************************)
\* the furthest stage the session's handles stand for
Stage(s) ==
    IF s.host = NIL \/ ~s.started THEN "RuntimeSelected"
    ELSE IF s.method # NIL THEN "EntryResolved"
    ELSE IF s.assembly # NIL THEN "AssemblyLoaded"
    ELSE IF s.domain # NIL THEN "DomainReady"
    ELSE "HostStarted"

AtOrAfterHostStarted == {"HostStarted", "DomainReady", "AssemblyLoaded", "EntryResolved"}

\* C17 as stated: Stop invoked at or after HostStarted whose native call reports
\* status 0 succeeds
C17_StopStatusZeroSucceeds ==
    (Returned /\ wcall.op = "Stop" /\ Stage(sess) \in AtOrAfterHostStarted
        /\ wcall.r.hr = S_OK)
    => wcall.out = "ok"

\* C17 amended: Stop invoked at or after HostStarted whose native call reports
\* status 0 and leaves no dispatch error code succeeds
C17_StopStatusZeroNoErrnoSucceeds ==
    (Returned /\ wcall.op = "Stop" /\ Stage(sess) \in AtOrAfterHostStarted
        /\ wcall.r.hr = S_OK /\ wcall.r.errno = NoErrno)
    => wcall.out = "ok" /\ wcall.err = NoErr /\ wcall.dispatched = <<[slot |-> "Stop", this |-> sess.host]>>

\* Stop succeeded with the entry point resolved
C17_Witness ==
    /\ Returned /\ wcall.op = "Stop" /\ Stage(sess) = "EntryResolved"
    /\ wcall.r.hr = S_OK /\ wcall.r.errno = NoErrno /\ wcall.out = "ok"

(***************************************************************************)
(* C18: Start on a host that is already started, its native call answering *)
(* status 0, returns success and leaves the session in HostStarted or      *)
(* after; GetICORRuntimeHost called again succeeds too and returns the     *)
(* host.                                                                   *)
(***************************************************************************)
C18_StartIdempotent ==
    /\ (Returned /\ wcall.op = "Start" /\ sess.started /\ wcall.r.hr = S_OK)
        => /\ wcall.out = "ok"
           /\ Keep(sess, wcall.op, wcall.ret) = sess
    /\ (wcall.called /\ wcall.op = "GetICORRuntimeHost" /\ sess.started
            /\ wcall.gi.err = NoErr /\ wcall.r.hr = S_OK)
        => /\ wcall.out = "ok" /\ wcall.ret = wcall.gi.ret
           /\ Keep(sess, wcall.op, wcall.ret) = sess

\* Start returned success on a started host that holds a domain
C18_Witness ==
    /\ Returned /\ wcall.op = "Start" /\ sess.started /\ sess.domain # NIL
    /\ wcall.r.hr = S_OK /\ wcall.out = "ok"

C18_WitnessGetICORRuntimeHost ==
    /\ wcall.called /\ wcall.op = "GetICORRuntimeHost" /\ sess.started
    /\ wcall.out = "ok" /\ wcall.ret = Handle.host

(***************************************************************************)
(* C19: once CreateSafeArray(B) has its array, it copies B into the        *)
(* array's storage with a single copy of exactly len(B) bytes from the     *)
(* first byte of B to the start of the storage; the storage then holds B   *)
(* and no other array has changed.                                         *)
(***************************************************************************)
\* the one copy the claim describes
WholeCopy(rawBytes) == <<[dst |-> 0, src |-> 0, len |-> Len(rawBytes)]>>

C19_CopiedExactlyOnce ==
    (ca.called /\ ca.arr # NIL)
    => /\ ca.copies = WholeCopy(ca.raw)
       /\ Deref(ca.arr).pvData = ca.raw

\* for every B that is not empty, with RtlCopyMemory resolved
C19_NonEmptyCopiedExactlyOnce ==
    (ca.called /\ ca.arr # NIL /\ ca.raw # <<>> /\ MustResolve(ca.fault, "RtlCopyMemory"))
    => /\ ca.copies = WholeCopy(ca.raw)
       /\ Deref(ca.arr).pvData = ca.raw
       /\ Len(Deref(ca.arr).pvData) = ca.copies[1].len

\* a call of CreateSafeArray leaves every array that existed as it was
C19_OtherArraysUnchanged ==
    [][(ca'.called /\ ~ca.called) => \A d \in heap : d \in heap']_vars

(***************************************************************************)
(* C20: for the domain's array with bounds (lower, upper), lower <= upper, *)
(* ListAssemblies returns upper - lower + 1 handles, the k-th (from 0) the *)
(* element at index lower + k, and fetches the indices lower..upper once   *)
(* each, in increasing order.                                              *)
(***************************************************************************)
\* the bounds of the array the domain reports
Lower == domainLb

Upper == (domainLb + Len(domainAsm)) - 1

\* the element the array holds at an index between its bounds
ElementAt(index) == domainAsm[(index - Lower) + 1].h

C20_InclusiveBounds ==
    (l2.called /\ Lower <= Upper)
    => /\ l2.fault = NoFault => l2.listed
       /\ l2.listed =>
              /\ Len(l2.asmb) = (Upper - Lower) + 1
              /\ \A k \in 0..(Upper - Lower) : l2.asmb[k + 1] = ElementAt(Lower + k)
              /\ l2.fetched = [k \in 1..((Upper - Lower) + 1) |-> (Lower + k) - 1]

\* three assemblies listed from the array with bounds (1, 3)
C20_Witness ==
    /\ l2.called /\ l2.listed
    /\ Lower = 1 /\ Upper = 3
    /\ Len(l2.asmb) = 3 /\ l2.fetched = <<1, 2, 3>>

(***************************************************************************)
(* C21: whenever GetDefaultDomain, Load_3, GetAppDomain, CreateDomain or   *)
(* GetEntryPoint returns a failure, the handle it returns is nil, whatever *)
(* the callee wrote to the out-parameter.                                  *)
(***************************************************************************)
HandleGetters == {"GetDefaultDomain", "Load_3", "GetAppDomain", "CreateDomain", "GetEntryPoint"}

C21_NilHandleOnFailure ==
    (wcall.called /\ wcall.op \in HandleGetters /\ wcall.out = "err")
    => wcall.ret = NIL

\* the same when the failed native call left its out-parameter nil
C21_NilHandleOnFailureOutParamUntouched ==
    (wcall.called /\ wcall.op \in HandleGetters /\ wcall.out = "err"
        /\ wcall.r.outp = NIL /\ wcall.q.outp = NIL)
    => wcall.ret = NIL

(***************************************************************************)
(* C22: after a successful SafeArrayLock(psa) the lock count of psa is one *)
(* higher than before and the set of allocated descriptors is unchanged.   *)
(***************************************************************************)
C22_LockIncrementsByOne ==
    (ca.lock.called /\ ca.lock.out = "ok")
    => /\ Deref(ca.lock.psa).cLocks = ca.lock.locksBefore + 1
       /\ {d.addr : d \in heap} = ca.lock.addrsBefore

\* no call of SafeArrayLock, successful or not, changes the lock count of its array
C22_LockCountNeverChanges ==
    ca.lock.called => Deref(ca.lock.psa).cLocks = ca.lock.locksBefore

(***************************************************************************)
(* C23: across any sequence of array and string operations each library    *)
(* is loaded at most once and each exported function is looked up at most  *)
(* once.                                                                   *)
(***************************************************************************)
C23_ResolvedAtMostOnce ==
    /\ \A lib \in Libraries : registry.loaded[lib] <= 1
    /\ \A e \in Exports : registry.found[e] <= 1

\* every call of an operation loads a library and looks up an export
C23_ResolvedInEveryCall ==
    /\ registry.loaded["OleAut32.dll"] = registry.calls
    /\ registry.found["SafeArrayCreate"] + registry.found["SysAllocString"]
         + registry.found["SysStringLen"] + registry.found["SafeArrayPutElement"]
         + registry.found["SafeArrayGetVartype"] + registry.found["SafeArrayAccessData"]
         + registry.found["SafeArrayGetLBound"] + registry.found["SafeArrayGetUBound"]
         + registry.found["SafeArrayDestroy"] + registry.found["SafeArrayGetDim"]
         + registry.found["SafeArrayGetElement"] + registry.found["SafeArrayGetElemsize"]
       = registry.calls

(***************************************************************************)
(* C24: for a domain whose assembly array is empty (upper bound = lower    *)
(* bound - 1) ListAssemblies returns an empty list with no error and       *)
(* fetches no element, every native call answering success; the capacity   *)
(* upper - lower and the loop test i <= upper are not wrapped around.      *)
(***************************************************************************)
C24_EmptyArrayListsNothing ==
    (l2.called /\ l2.fault = NoFault /\ Upper = Lower - 1)
    => /\ l2.listed /\ l2.out # "fatal"
       /\ l2.asmb = <<>>
       /\ l2.fetched = <<>>
       /\ U32Sub(Wrap32(Upper), Lower) = Upper - Lower
       /\ U32Le(Lower, Wrap32(Upper)) = (Lower <= Upper)

\* with one assembly or more in the array the bounds read the same as uint32
C24_NonEmptyArrayNoWrap ==
    (l2.called /\ Lower <= Upper)
    => /\ U32Sub(Wrap32(Upper), Lower) = Upper - Lower
       /\ U32Le(Lower, Wrap32(Upper))

(***************************************************************************)
(* C25: for every byte sequence B, the empty one included, CreateSafeArray *)
(* returns an array or an error value; it does not fault on its input.     *)
(***************************************************************************)
C25_NoFaultOnInput ==
    (ca.called /\ ca.fault.kind # "missing")
    => /\ ca.out \in {"ok", "err"}
       /\ ca.out = "ok" => ca.ret # NIL /\ ca.err = NoErr
       /\ ca.out = "err" => ca.ret = NIL /\ ca.err # NoErr

\* the same for every B that is not empty
C25_NoFaultOnNonEmptyInput ==
    (ca.called /\ ca.fault.kind # "missing" /\ ca.raw # <<>>)
    => /\ ca.out \in {"ok", "err"}
       /\ ca.out = "ok" => ca.ret # NIL /\ ca.err = NoErr
       /\ ca.out = "err" => ca.ret = NIL /\ ca.err # NoErr

(***************************************************************************)
(* C26: every typed wrapper passes the object it is invoked on as the      *)
(* first argument of the native slot it dispatches, EnumDomains included;  *)
(* the QueryInterface of the chained wrappers is invoked on the IUnknown   *)
(* the first call returned.                                                *)
(***************************************************************************)
C26_ReceiverIsFirstArgument ==
    (wcall.called /\ wcall.op \in WrapOps /\ wcall.obj # NIL)
    => /\ Len(wcall.dispatched) >= 1
       /\ wcall.dispatched[1].slot = wcall.op
       /\ wcall.dispatched[1].this = wcall.obj
       /\ Len(wcall.dispatched) = 2 => wcall.dispatched[2].this = wcall.r.outp

\* the same for every wrapper but EnumDomains
C26_ReceiverIsFirstArgumentButEnumDomains ==
    (wcall.called /\ wcall.op \in WrapOps \ {"EnumDomains"} /\ wcall.obj # NIL)
    => /\ Len(wcall.dispatched) >= 1
       /\ wcall.dispatched[1].slot = wcall.op
       /\ wcall.dispatched[1].this = wcall.obj
       /\ Len(wcall.dispatched) = 2 => wcall.dispatched[2].this = wcall.r.outp

(***************************************************************************)
(* C27: in Load_2 an entry whose full name cannot be read is skipped: the  *)
(* first entry whose name can be read and matches is returned, whatever    *)
(* failed before it, and a name-read failure is never the error Load_2     *)
(* returns.                                                                *)
(***************************************************************************)
\* entry k is the first whose name is read and matches
FirstReadableMatch(k) ==
    /\ NameRead(k) /\ NameMatches(k, l2.search)
    /\ \A j \in 1..(k - 1) : ~(NameRead(j) /\ NameMatches(j, l2.search))

C27_UnreadableNameSkipped ==
    (l2.called /\ l2.listed) =>
        /\ \A k \in 1..Len(domainAsm) :
              FirstReadableMatch(k) => (l2.out = "ok" /\ l2.ret = domainAsm[k].h)
        /\ l2.err.tier \in {"nil", "notfound"}
        /\ l2.err.op # "Assembly::GetFullName"

\* the name of the first entry could not be read and the second entry was returned
C27_Witness ==
    /\ l2.called /\ l2.listed /\ l2.out = "ok"
    /\ Len(domainAsm) >= 2
    /\ ~NameRead(1)
    /\ l2.ret = domainAsm[2].h


(***************************************************************************)
(* GetDomain: what the scan returns                                        *)
(***************************************************************************)

\* NextDomain fails for the entry
NextFails(e) == NextDomain(e.r, e.q).err # NoErr

\* the native NextDomain answers the end-of-enumeration status
EndStatus(e) == e.r.errno = NoErrno /\ e.r.hr = 1

\* the domain is handed out and its name cannot be read
NameFails(e) == ~NextFails(e) /\ GetFriendlyName(e.n).err # NoErr

\* the domain is handed out and its name equals dName ignoring case
Matches(e, dName) ==
    /\ ~NextFails(e)
    /\ ~NameFails(e)
    /\ EqualFold(dName, GetFriendlyName(e.n).ret)

\* the positions of an enumeration at which the scan for dName has to end
Stops(entries, dName) ==
    {k \in 1..Len(entries) :
        NextFails(entries[k]) \/ NameFails(entries[k]) \/ Matches(entries[k], dName)}

\* the calls of NextDomain a GetDomain call has made
NextDomainCalls == Cardinality({j \in 1..Len(rc.call.dispatched) :
                                    rc.call.dispatched[j].slot = "NextDomain"})

GetDomainReturned == rc.call.called /\ rc.call.op = "GetDomain"

\* what GetDomain has to return for an enumeration that was obtained
ScanResult(gd) ==
    LET S == Stops(gd.entries, gd.dName)
    IN  IF S = {}
        THEN /\ rc.call.out = "err"
             /\ rc.call.err = NotFoundDomain(gd.dName)
             /\ NextDomainCalls = Len(gd.entries) + 1
        ELSE LET k == CHOOSE x \in S : \A y \in S : x <= y
                 e == gd.entries[k]
             IN  /\ NextDomainCalls = k
                 /\ IF NextFails(e)
                    THEN /\ rc.call.out = "err"
                         /\ rc.call.ret = NIL
                         /\ rc.call.err = IF EndStatus(e) THEN NotFoundDomain(gd.dName)
                                          ELSE NextDomain(e.r, e.q).err
                    ELSE IF NameFails(e)
                    THEN /\ rc.call.out = "err"
                         /\ rc.call.ret = NIL
                         /\ rc.call.err = GetFriendlyName(e.n).err
                    ELSE /\ rc.call.out = "ok"
                         /\ rc.call.ret = NextDomain(e.r, e.q).ret
                         /\ rc.call.err = NoErr

\* C28: GetDomain(name) over a finite enumeration returns to its caller: the
\* first enumerated domain whose friendly name equals name ignoring case; the
\* could-not-find error when NextDomain answers the end-of-enumeration status 1
\* before any match; and any other failure of NextDomain or GetFriendlyName
\* unchanged, with no further NextDomain call
C28_GetDomainScan ==
    GetDomainReturned =>
        /\ rc.call.out # "panic"
        /\ EnumDomains(rc.call.gd.en).err = NoErr => ScanResult(rc.call.gd)

\* when EnumDomains comes back and no QueryInterface of the scan answers
\* status 1, GetDomain returns what the scan has to return
C28_GetDomainScanNoStatusOneQuery ==
    (/\ GetDomainReturned
     /\ ~Faulted(rc.call.gd.en)
     /\ EnumDomains(rc.call.gd.en).err = NoErr
     /\ \A k \in 1..Len(rc.call.gd.entries) : rc.call.gd.entries[k].q.hr # 1)
        => /\ rc.call.out # "panic"
           /\ ScanResult(rc.call.gd)

\* a failure of NextDomain given to the caller as could-not-find although the
\* native NextDomain did not answer the end-of-enumeration status
C28_QueryFailureTakenForEnd ==
    /\ GetDomainReturned
    /\ ~Faulted(rc.call.gd.en)
    /\ rc.call.err = NotFoundDomain(rc.call.gd.dName)
    /\ NextDomainCalls <= Len(rc.call.gd.entries)
    /\ ~EndStatus(rc.call.gd.entries[NextDomainCalls])

C28_NoQueryFailureTakenForEnd == ~C28_QueryFailureTakenForEnd


(***************************************************************************)
(* GetICORRuntimeHost: the host and the error it returns                   *)
(***************************************************************************)

GetICORRuntimeHostReturned == wcall.called /\ wcall.op = "GetICORRuntimeHost"

\* the calls of Start a wrapper call has made
StartCalls == Cardinality({j \in 1..Len(wcall.dispatched) :
                              wcall.dispatched[j].slot = "Start"})

\* C29: GetICORRuntimeHost never calls Start when obtaining the runtime-host
\* interface fails, and then returns no host; when the interface is obtained
\* it calls Start exactly once, and it returns a host only together with a nil
\* error
C29_HostOnlyWhenStarted ==
    GetICORRuntimeHostReturned =>
        /\ wcall.gi.err # NoErr => (StartCalls = 0 /\ wcall.ret = NIL)
        /\ wcall.gi.err = NoErr => StartCalls = 1
        /\ wcall.ret # NIL => wcall.err = NoErr

\* Start is called exactly once when the interface is obtained and never
\* otherwise, and the host of a successful Start is returned with a nil error
C29_StartCalledOnceWhenObtained ==
    GetICORRuntimeHostReturned =>
        /\ wcall.gi.err # NoErr => (StartCalls = 0 /\ wcall.ret = NIL)
        /\ wcall.gi.err = NoErr => (StartCalls = 1 /\ wcall.ret = wcall.gi.ret)
        /\ (wcall.gi.err = NoErr /\ wcall.r.hr = S_OK) => wcall.err = NoErr

\* a host returned together with the error of its Start
C29_HostReturnedWithStartError ==
    /\ GetICORRuntimeHostReturned
    /\ wcall.ret = Handle.host
    /\ wcall.err = StatusErr("ICORRuntimeHost::Start", wcall.r.hr)

C29_NoHostReturnedWithStartError == ~C29_HostReturnedWithStartError


(***************************************************************************)
(* AddRef and Release: the count handed to the caller                      *)
(***************************************************************************)

CountOps == {"AddRef", "Release", "IUnknownAddRef", "IUnknownRelease"}

\* C30: IUnknown.AddRef and IUnknown.Release return, as count, exactly the
\* reference count the native call returned (the count after the adjustment),
\* as the AddRef and Release of ICORRuntimeHost and AppDomain do; the number is
\* not taken for a memory address
C30_CountIsNativeCount ==
    (rc.call.called /\ rc.call.op \in CountOps /\ rc.call.err = NoErr)
        => /\ rc.call.out = "ok"
           /\ rc.call.ret = rc.call.after

\* the AddRef and Release of ICORRuntimeHost and AppDomain return the count
\* the native call returned
C30_TypedCountIsNativeCount ==
    (rc.call.called /\ rc.call.op \in {"AddRef", "Release"})
        => /\ rc.call.out = "ok"
           /\ rc.call.ret = rc.call.after

\* IUnknown.AddRef with no dispatch error hands back a word of memory that is
\* not the count
C30_WordReadForCount ==
    /\ rc.call.called /\ rc.call.op = "IUnknownAddRef"
    /\ rc.call.out = "ok" /\ rc.call.ret # rc.call.after

C30_NoWordReadForCount == ~C30_WordReadForCount

\* IUnknown.Release with no dispatch error ends in a fault
C30_ReleaseFaults ==
    /\ rc.call.called /\ rc.call.op = "IUnknownRelease"
    /\ rc.call.out = "panic"

C30_NoReleaseFaults == ~C30_ReleaseFaults

====
